---- MODULE Spec2Model ----
(***************************************************************************)
(* Rolodex: the relational store (backend/database.py), the virtual        *)
(* filesystem resolver (backend/vfs.py) and the ingestion pipeline          *)
(* (backend/services/ingestion.py).                                         *)
(*                                                                          *)
(* Python strings are sequences of character codes, so that replace,        *)
(* strip, split, formatting and lexicographic sorting are computed the way  *)
(* the code computes them.  A storage read whose row order SQL leaves open  *)
(* (ties of ORDER BY, a SELECT without ORDER BY) is the set of lists the    *)
(* read may return; resolve(path) is therefore the set of nodes the call    *)
(* may return.                                                              *)
(***************************************************************************)
EXTENDS Integers, Sequences, FiniteSets, TLC

(* ---------------------------------------------------------------- bounds *)
\* ids handed out by the interactions table in one behaviour of Spec
MaxInteractionId == 2
\* ids handed out by the interactions table in one behaviour of SpecVfs
MaxVfsInteractionId == 2
\* longest item list the follow-up extraction returns
MaxItems == 1
\* ids handed out by the interactions table in one behaviour of SpecRead
MaxReadInteractionId == 2
\* ids handed out by the interactions table in one behaviour of SpecConnections
MaxConnInteractionId == 1
\* longest connection list person create is given in SpecConnections
MaxConns == 1
\* longest connection list create_person is given in SpecEdges
MaxEdgeConns == 1
\* longest utterance list the diarization returns in SpecRelabel
MaxUtterances == 3
\* ids handed out by the interactions table in one behaviour of SpecTree
MaxTreeInteractionId == 2
\* ids handed out by the interactions table in one behaviour of SpecConcurrent
MaxConcInteractionId == 2
\* ids handed out by the interactions table in one behaviour of SpecFollowups
MaxFuInteractionId == 2
\* follow-up ids after which followup add is not run any more in SpecFollowups
MaxFollowupId == 2
\* segments of the shell's current directory in one behaviour of SpecPath
MaxDepth == 4
\* pieces between slashes of a user path a command is given in SpecPath
MaxUserParts == 3

(* ------------------------------------------------------- input alphabets *)
\* person names: "A B", "A_B", "C"
Names == { <<65, 32, 66>>, <<65, 95, 66>>, <<67>> }
\* person names of the edge specification: "A B", "A_B", "C", "D"
EdgeNames == { <<65, 32, 66>>, <<65, 95, 66>>, <<67>>, <<68>> }
\* person names of the pipeline specification: "A B", "C"
PipelineNames == { <<65, 32, 66>>, <<67>> }
\* person names of the read specification: "A B", "A_B"
ReadNames == { <<65, 32, 66>>, <<65, 95, 66>> }
\* stored type values of the read specification: "customer", and "" (no type given)
ReadTypeValues == { <<99, 117, 115, 116, 111, 109, 101, 114>>, <<>> }
\* calendar dates of occurrence (the CLI parses %Y-%m-%d, time 00:00:00)
Dates == { [y |-> 2025, m |-> 9, d |-> 5], [y |-> 2025, m |-> 9, d |-> 6] }
\* dates of occurrence of the pipeline specification: 2025-09-05
PipelineDates == { [y |-> 2025, m |-> 9, d |-> 5] }
\* background texts a caller passes to create_person: "", " ", "bg"
Backgrounds == { <<>>, <<32>>, <<98, 103>> }
\* texts the background generation returns: "", "gen"
GeneratedBackgrounds == { <<>>, <<103, 101, 110>> }
\* (delta, updated_state) pairs the rolling update returns: ("", ""), ("d", "s")
RollingUpdates == { [delta |-> <<>>, updated_state |-> <<>>],
                    [delta |-> <<100>>, updated_state |-> <<115>>] }
\* takeaway lists the analysis returns
TakeawayLists == { << <<116, 49>> >> }
\* raw transcript file contents: "", " \n", "hi"
RawTexts == { <<>>, <<32, 10>>, <<104, 105>> }
\* takeaway lists the analysis returns in SpecTree: ["t1"], ["t2"]
TreeTakeawayLists == { << <<116, 49>> >>, << <<116, 50>> >> }
\* item lists the follow-up extraction returns, up to MaxItems items
FollowupItemLists == UNION { [1..n -> { <<99, 97, 108, 108>> }] : n \in 0..MaxItems }
\* item lists the follow-up extraction returns in SpecVfs: [], ["call"]
VfsFollowupItemLists == { <<>>, << <<99, 97, 108, 108>> >> }
\* companies and stored type values a caller passes to create_person: "Acme"; "customer"
Companies == { <<65, 99, 109, 101>> }
PersonTypeValues == { <<99, 117, 115, 116, 111, 109, 101, 114>> }
\* connection lists a caller passes to create_person
ConnectionLists == { <<>> }
\* tag lists the analysis returns: ["pricing"]
TagLists == { << <<112, 114, 105, 99, 105, 110, 103>> >> }
\* speaker-letter utterances the transcription / diarization returns: A: "hi", B: "yo"
UtteranceLists == { << [speaker |-> <<65>>, text |-> <<104, 105>>],
                       [speaker |-> <<66>>, text |-> <<121, 111>>] >> }
\* subject letters the subject identification returns: "A"
SubjectSpeakers == { <<65>> }
\* content of a recording's transcription
TranscribedTexts == { <<104, 105>> }

None == [node_type |-> "None"]
\* the outcome of a call that raises AttributeError instead of returning
AttributeError == [node_type |-> "AttributeError"]

(* ------------------------------------------------------ string functions *)
Max(S) == CHOOSE x \in S : \A y \in S : y <= x

\* str.replace(a, b) for single characters
Replace(s, a, b) == [i \in DOMAIN s |-> IF s[i] = a THEN b ELSE s[i]]

\* characters str.strip() removes: space, \t, \n, \v, \f, \r
IsSpace(c) == c \in {32, 9, 10, 11, 12, 13}

RECURSIVE lstrip(_)
lstrip(s) == IF s = <<>> THEN s
             ELSE IF IsSpace(Head(s)) THEN lstrip(Tail(s)) ELSE s

RECURSIVE rstrip(_)
rstrip(s) == IF s = <<>> THEN s
             ELSE IF IsSpace(s[Len(s)]) THEN rstrip(SubSeq(s, 1, Len(s) - 1)) ELSE s

strip(s) == rstrip(lstrip(s))

\* str.rstrip("/")
RECURSIVE rstrip_slash(_)
rstrip_slash(s) == IF s = <<>> THEN s
                   ELSE IF s[Len(s)] = 47 THEN rstrip_slash(SubSeq(s, 1, Len(s) - 1)) ELSE s

\* str.split("/"): the pieces between slashes, empty pieces included
RECURSIVE split(_, _)
split(s, cur) == IF s = <<>> THEN <<cur>>
                 ELSE IF Head(s) = 47 THEN <<cur>> \o split(Tail(s), <<>>)
                 ELSE split(Tail(s), Append(cur, Head(s)))

\* [p for p in xs if p]
RECURSIVE NonEmpty(_)
NonEmpty(xs) == IF xs = <<>> THEN <<>>
                ELSE IF Head(xs) = <<>> THEN NonEmpty(Tail(xs))
                ELSE <<Head(xs)>> \o NonEmpty(Tail(xs))

\* decimal digits of a natural number, as str(n) prints them
RECURSIVE Dec(_)
Dec(n) == IF n < 10 THEN <<48 + n>> ELSE Append(Dec(n \div 10), 48 + (n % 10))

\* zero padding to width w (%Y is width 4, %m and %d width 2)
RECURSIVE Pad(_, _)
Pad(s, w) == IF Len(s) >= w THEN s ELSE Pad(<<48>> \o s, w)

\* date.strftime("%Y-%m-%d")
strftime(date) == Pad(Dec(date.y), 4) \o <<45>> \o Pad(Dec(date.m), 2) \o <<45>> \o Pad(Dec(date.d), 2)

\* date.isoformat() of a datetime at midnight: YYYY-MM-DDT00:00:00
isoformat(date) == strftime(date) \o <<84, 48, 48, 58, 48, 48, 58, 48, 48>>

\* s.startswith(prefix), the SQL  date LIKE 'prefix%'
StartsWith(s, prefix) == Len(s) >= Len(prefix) /\ SubSeq(s, 1, Len(prefix)) = prefix

\* Python's / SQLite's (BINARY collation) order on strings
RECURSIVE LexLess(_, _)
LexLess(s, t) == IF t = <<>> THEN FALSE
                 ELSE IF s = <<>> THEN TRUE
                 ELSE IF Head(s) < Head(t) THEN TRUE
                 ELSE IF Head(s) > Head(t) THEN FALSE
                 ELSE LexLess(Tail(s), Tail(t))

LexLeq(s, t) == s = t \/ LexLess(s, t)

\* insertion of x into a sorted list of strings, after its equals (stable)
RECURSIVE InsertStr(_, _)
InsertStr(x, xs) == IF xs = <<>> THEN <<x>>
                    ELSE IF LexLess(x, Head(xs)) THEN <<x>> \o xs
                    ELSE <<Head(xs)>> \o InsertStr(x, Tail(xs))

\* sorted(xs) for a list of strings
RECURSIVE sorted(_)
sorted(xs) == IF xs = <<>> THEN <<>>
              ELSE InsertStr(xs[Len(xs)], sorted(SubSeq(xs, 1, Len(xs) - 1)))

\* the lists that enumerate the set S once each, in any order
PermSeqs(S) == { f \in [1..Cardinality(S) -> S] : \A x \in S : \E i \in DOMAIN f : f[i] = x }

(* ------------------------------------------------------------------ state *)
VARIABLES
  persons,            \* table persons: name -> row
  interactions,       \* table interactions: set of rows
  followups,          \* table followups: set of rows
  connections,        \* table connections: set of <<person_a, person_b>>
  nextInteractionId,  \* AUTOINCREMENT counter of interactions
  nextFollowupId,     \* AUTOINCREMENT counter of followups
  pc,                 \* position of the ingestion call: idle, a stage, done or failed
  loc,                \* local variables of the ingestion call
  aiCalls,            \* AI collaborator calls made by the current ingestion call
  stages,             \* stages the current ingestion call has entered, in order
  outcome,            \* how the ingestion call ended
  pre,                \* the store as it was when the ingestion call began
  cwd,                \* the shell's current virtual directory
  rd,                 \* position and locals of a resolve or tree call of another caller
  observed            \* what that call returns in each storage state that existed during it

vars == <<persons, interactions, followups, connections, nextInteractionId,
          nextFollowupId, pc, loc, aiCalls, stages, outcome, pre, cwd, rd, observed>>

store == <<persons, interactions, followups, connections>>

storeVars == <<persons, interactions, followups, connections, nextInteractionId, nextFollowupId>>

\* the locals of ingest_recording / ingest_transcript / _run_shared_pipeline
\* before they are assigned
NoLoc == [frame |-> "none", file_exists |-> FALSE, raw_text |-> <<>>, person_name |-> <<>>,
          person |-> None, date |-> None, transcript |-> None, subject_speaker |-> <<>>,
          takeaways |-> <<>>, tags |-> <<>>, delta |-> <<>>, updated_state |-> <<>>,
          interaction |-> None, background |-> None]

(* --------------------------------------------------------------- literals *)
\* "info"
S_info == <<105, 110, 102, 111>>
\* "background"
S_background == <<98, 97, 99, 107, 103, 114, 111, 117, 110, 100>>
\* "state"
S_state == <<115, 116, 97, 116, 101>>
\* "delta"
S_delta == <<100, 101, 108, 116, 97>>
\* "interactions"
S_interactions == <<105, 110, 116, 101, 114, 97, 99, 116, 105, 111, 110, 115>>
\* "transcript"
S_transcript == <<116, 114, 97, 110, 115, 99, 114, 105, 112, 116>>
\* "takeaways"
S_takeaways == <<116, 97, 107, 101, 97, 119, 97, 121, 115>>
\* "tags"
S_tags == <<116, 97, 103, 115>>
\* "(no background)"
NoBackground == <<40, 110, 111, 32, 98, 97, 99, 107, 103, 114, 111, 117, 110, 100, 41>>
\* "(no state of play)"
NoStateOfPlay == <<40, 110, 111, 32, 115, 116, 97, 116, 101, 32, 111, 102, 32, 112, 108, 97, 121, 41>>
\* "(no delta)"
NoDelta == <<40, 110, 111, 32, 100, 101, 108, 116, 97, 41>>
\* "(no takeaways)"
NoTakeaways == <<40, 110, 111, 32, 116, 97, 107, 101, 97, 119, 97, 121, 115, 41>>
\* "(no tags)"
NoTags == <<40, 110, 111, 32, 116, 97, 103, 115, 41>>
\* "(no transcript available)"
NoTranscript == <<40, 110, 111, 32, 116, 114, 97, 110, 115, 99, 114, 105, 112, 116, 32, 97, 118, 97, 105, 108, 97, 98, 108, 101, 41>>
\* "Name:         "
LblName == <<78, 97, 109, 101, 58, 32, 32, 32, 32, 32, 32, 32, 32, 32>>
\* "Company:      "
LblCompany == <<67, 111, 109, 112, 97, 110, 121, 58, 32, 32, 32, 32, 32, 32>>
\* "Type:         "
LblType == <<84, 121, 112, 101, 58, 32, 32, 32, 32, 32, 32, 32, 32, 32>>
\* "Interactions: "
LblInteractions == <<73, 110, 116, 101, 114, 97, 99, 116, 105, 111, 110, 115, 58, 32>>
\* "Interviewer "
LblInterviewer == <<73, 110, 116, 101, 114, 118, 105, 101, 119, 101, 114, 32>>

\* "\n".join(lines)
RECURSIVE JoinLines(_)
JoinLines(lines) == IF lines = <<>> THEN <<>>
                    ELSE IF Len(lines) = 1 THEN lines[1]
                    ELSE lines[1] \o <<10>> \o JoinLines(Tail(lines))

(* ---------------------------------------------------------- storage reads *)
\* rows of one person in table interactions
PersonInteractions(person_name) == { r \in interactions : r.person_name = person_name }

\* the result lists of  SELECT ... ORDER BY date : the stored date text is
\* date.isoformat(); rows with equal date text come in any order
OrderByDate(rows) ==
  { f \in PermSeqs(rows) :
      \A i, j \in DOMAIN f : i < j => LexLeq(isoformat(f[i].date), isoformat(f[j].date)) }

\* the result list of  SELECT ... ORDER BY id  (ids are unique)
OrderById(rows) ==
  CHOOSE f \in PermSeqs(rows) : \A i, j \in DOMAIN f : i < j => f[i].id < f[j].id

get_interactions(person_name) == OrderByDate(PersonInteractions(person_name))

get_interactions_by_date(person_name, date_str) ==
  OrderById({ r \in PersonInteractions(person_name) : StartsWith(isoformat(r.date), date_str) })

\* Person.from_dict(dict(row), interaction_ids, connections): a stored type ''
\* is the untyped person, whose type attribute is None; a stored member value
\* becomes the PersonType member of that value
from_dict(name, row, interaction_ids) ==
  [name |-> name,
   current_company |-> row.current_company,
   type |-> IF row.type = <<>> THEN None ELSE [value |-> row.type],
   background |-> row.background,
   state_of_play |-> row.state_of_play,
   last_delta |-> row.last_delta,
   interaction_ids |-> interaction_ids]

\* the Person objects get_person may return, or {None}
get_person(name) ==
  IF name \notin DOMAIN persons THEN {None}
  ELSE { from_dict(name, persons[name], [i \in DOMAIN f |-> f[i].id]) :
           f \in get_interactions(name) }

\* _fetch_connections: the other endpoint of every edge of the person, sorted
get_connections(name) ==
  LET others == { IF c[1] = name THEN c[2] ELSE c[1] :
                    c \in { d \in connections : d[1] = name \/ d[2] = name } }
  IN sorted(CHOOSE f \in PermSeqs(others) : TRUE)

\* get_open_followups with the status test of the WHERE clause forgotten
get_open_followups_anystatus(person_name) ==
  OrderById({ f \in followups : f.person_name = person_name })

\* SELECT * FROM followups WHERE person_name = ? AND status = 'open' ORDER BY id
get_open_followups(person_name) ==
  OrderById({ f \in followups : f.person_name = person_name /\ f.status = "open" })

\* the lists list_persons() may return (SELECT * FROM persons, no ORDER BY);
\* each element stands for the Person object of that name
list_persons == PermSeqs(DOMAIN persons)

(* -------------------------------------------------------------------- VFS *)
_name_to_slug(name) == Replace(name, 32, 95)

_slug_to_name(slug) == Replace(slug, 95, 32)

\* date strings of a list of interactions, in order of first appearance
\* (the key order of the defaultdict by_date)
RECURSIVE DateKeys(_, _)
DateKeys(xs, seen) ==
  IF xs = <<>> THEN <<>>
  ELSE IF strftime(Head(xs).date) \in seen THEN DateKeys(Tail(xs), seen)
  ELSE <<strftime(Head(xs).date)>> \o DateKeys(Tail(xs), seen \cup {strftime(Head(xs).date)})

\* insertion of row x into a list sorted by id, after its equals (stable)
RECURSIVE InsertById(_, _)
InsertById(x, xs) == IF xs = <<>> THEN <<x>>
                     ELSE IF x.id < Head(xs).id THEN <<x>> \o xs
                     ELSE <<Head(xs)>> \o InsertById(x, Tail(xs))

\* group.sort(key=lambda i: i.id)
RECURSIVE SortById(_)
SortById(xs) == IF xs = <<>> THEN <<>>
                ELSE InsertById(xs[Len(xs)], SortById(SubSeq(xs, 1, Len(xs) - 1)))

\* GroupAssignments with the suffix forgotten: every member is assigned to the bare date
GroupAssignments_nosuffix(date_str, group) ==
  [idx \in 1..Len(group) |-> << date_str, group[idx] >>]

\* the slug_map[...] = ... assignments one date group makes, in order
GroupAssignments(date_str, group) ==
  IF Len(group) = 1 THEN << <<date_str, group[1]>> >>
  ELSE [idx \in 1..Len(group) |-> << date_str \o <<95>> \o Dec(idx), group[idx] >>]

\* the assignments of all groups, in the key order of by_date
RECURSIVE SlugAssignments(_, _)
SlugAssignments(keys, xs) ==
  IF keys = <<>> THEN <<>>
  ELSE GroupAssignments(Head(keys),
                        SortById(SelectSeq(xs, LAMBDA i : strftime(i.date) = Head(keys))))
       \o SlugAssignments(Tail(keys), xs)

\* a dict built by assignments: a later assignment to a key replaces the earlier
DictOf(pairs) ==
  [k \in { pairs[i][1] : i \in DOMAIN pairs } |->
     pairs[Max({ i \in DOMAIN pairs : pairs[i][1] = k })][2]]

\* the keys of a dict built by assignments, in insertion order
RECURSIVE DictKeys(_, _)
DictKeys(pairs, seen) ==
  IF pairs = <<>> THEN <<>>
  ELSE IF Head(pairs)[1] \in seen THEN DictKeys(Tail(pairs), seen)
  ELSE <<Head(pairs)[1]>> \o DictKeys(Tail(pairs), seen \cup {Head(pairs)[1]})

\* slug_map.keys()
slug_keys(xs) == DictKeys(SlugAssignments(DateKeys(xs, {}), xs), {})

\* slug -> Interaction
_build_date_slugs(xs) == DictOf(SlugAssignments(DateKeys(xs, {}), xs))

\* "speaker: text" lines, the raw text, or the placeholder
_format_transcript(interaction) ==
  IF interaction.transcript.utterances # <<>>
  THEN JoinLines([k \in DOMAIN interaction.transcript.utterances |->
                    interaction.transcript.utterances[k].speaker \o <<58, 32>>
                      \o interaction.transcript.utterances[k].text])
  ELSE IF interaction.transcript.text # <<>> THEN interaction.transcript.text
  ELSE NoTranscript

_format_takeaways(interaction) ==
  IF interaction.takeaways = <<>> THEN NoTakeaways
  ELSE JoinLines([k \in DOMAIN interaction.takeaways |-> <<45, 32>> \o interaction.takeaways[k]])

_format_tags(interaction) ==
  IF interaction.tags = <<>> THEN NoTags
  ELSE JoinLines(interaction.tags)

_format_info(person) ==
  JoinLines(<< LblName \o person.name,
               LblCompany \o person.current_company,
               LblType \o person.type.value,
               LblInteractions \o Dec(Len(person.interaction_ids)) >>)

PERSON_FILES == << S_info, S_background, S_state, S_delta >>

INTERACTION_FILES == << S_transcript, S_takeaways, S_tags >>

InList(x, xs) == \E k \in DOMAIN xs : xs[k] = x

VFSNode(node_type, path, name, is_dir, children, content) ==
  [node_type |-> node_type, path |-> path, name |-> name, is_dir |-> is_dir,
   children |-> children, content |-> content]

\* the part of resolve below /<person>/interactions, for one result list of
\* get_interactions
resolve_interactions(parts, person_slug, xs) ==
  LET slug_map == _build_date_slugs(xs)
      keys == slug_keys(xs)
      date_slug == parts[3]
      interaction == slug_map[date_slug]
      file_name == parts[4]
  IN IF Len(parts) = 2
     THEN VFSNode("interactions_dir", <<47>> \o person_slug \o <<47>> \o S_interactions,
                  S_interactions, TRUE,
                  sorted([k \in DOMAIN keys |-> keys[k] \o <<47>>]),
                  <<>>)
     ELSE IF date_slug \notin DOMAIN slug_map THEN None
     ELSE IF Len(parts) = 3
     THEN VFSNode("interaction_dir",
                  <<47>> \o person_slug \o <<47>> \o S_interactions \o <<47>> \o date_slug,
                  date_slug, TRUE, INTERACTION_FILES, <<>>)
     ELSE IF Len(parts) = 4 /\ InList(file_name, INTERACTION_FILES)
     THEN VFSNode("interaction_file",
                  <<47>> \o person_slug \o <<47>> \o S_interactions \o <<47>> \o date_slug
                    \o <<47>> \o file_name,
                  file_name, FALSE, <<>>,
                  CASE file_name = S_transcript -> _format_transcript(interaction)
                    [] file_name = S_takeaways -> _format_takeaways(interaction)
                    [] file_name = S_tags -> _format_tags(interaction))
     ELSE None

\* resolve_person without the  parts[1] != "interactions"  test: every second
\* segment that is no person file is taken for the interactions directory
resolve_person_anysecond(parts, person_slug, person) ==
  LET file_name == parts[2]
  IN IF person = None THEN {None}
     ELSE IF Len(parts) = 1
     THEN { VFSNode("person_dir", <<47>> \o person_slug, person_slug, TRUE,
                    PERSON_FILES \o << S_interactions \o <<47>> >>, <<>>) }
     ELSE IF Len(parts) = 2 /\ file_name = S_info /\ person.type = None
     THEN { AttributeError }
     ELSE IF Len(parts) = 2 /\ InList(file_name, PERSON_FILES)
     THEN { VFSNode("person_file", <<47>> \o person_slug \o <<47>> \o file_name,
                    file_name, FALSE, <<>>,
                    CASE file_name = S_info -> _format_info(person)
                      [] file_name = S_background ->
                           IF person.background # <<>> THEN person.background ELSE NoBackground
                      [] file_name = S_state ->
                           IF person.state_of_play # <<>> THEN person.state_of_play ELSE NoStateOfPlay
                      [] file_name = S_delta ->
                           IF person.last_delta # <<>> THEN person.last_delta ELSE NoDelta) }
     ELSE { resolve_interactions(parts, person_slug, xs) :
              xs \in get_interactions(_slug_to_name(person_slug)) }

\* resolve_person without the  len(parts) == 2  test of the person files: a
\* person file is found at any depth
resolve_person_anydepth(parts, person_slug, person) ==
  LET file_name == parts[2]
  IN IF person = None THEN {None}
     ELSE IF Len(parts) = 1
     THEN { VFSNode("person_dir", <<47>> \o person_slug, person_slug, TRUE,
                    PERSON_FILES \o << S_interactions \o <<47>> >>, <<>>) }
     ELSE IF InList(file_name, PERSON_FILES)
     THEN { VFSNode("person_file", <<47>> \o person_slug \o <<47>> \o file_name,
                    file_name, FALSE, <<>>,
                    CASE file_name = S_info -> LblName \o person.name
                      [] file_name = S_background ->
                           IF person.background # <<>> THEN person.background ELSE NoBackground
                      [] file_name = S_state ->
                           IF person.state_of_play # <<>> THEN person.state_of_play ELSE NoStateOfPlay
                      [] file_name = S_delta ->
                           IF person.last_delta # <<>> THEN person.last_delta ELSE NoDelta) }
     ELSE IF parts[2] # S_interactions THEN {None}
     ELSE { resolve_interactions(parts, person_slug, xs) :
              xs \in get_interactions(_slug_to_name(person_slug)) }

\* the part of resolve after the person lookup, for one result of get_person
resolve_person(parts, person_slug, person) ==
  LET file_name == parts[2]
  IN IF person = None THEN {None}
     ELSE IF Len(parts) = 1
     THEN { VFSNode("person_dir", <<47>> \o person_slug, person_slug, TRUE,
                    PERSON_FILES \o << S_interactions \o <<47>> >>, <<>>) }
     ELSE IF Len(parts) = 2 /\ file_name = S_info /\ person.type = None
     THEN { AttributeError }   \* person.type.value in _format_info
     ELSE IF Len(parts) = 2 /\ InList(file_name, PERSON_FILES)
     THEN { VFSNode("person_file", <<47>> \o person_slug \o <<47>> \o file_name,
                    file_name, FALSE, <<>>,
                    CASE file_name = S_info -> _format_info(person)
                      [] file_name = S_background ->
                           IF person.background # <<>> THEN person.background ELSE NoBackground
                      [] file_name = S_state ->
                           IF person.state_of_play # <<>> THEN person.state_of_play ELSE NoStateOfPlay
                      [] file_name = S_delta ->
                           IF person.last_delta # <<>> THEN person.last_delta ELSE NoDelta) }
     ELSE IF parts[2] # S_interactions THEN {None}
     ELSE { resolve_interactions(parts, person_slug, xs) :
              xs \in get_interactions(_slug_to_name(person_slug)) }

\* resolve with the root's children in the row order of list_persons, the
\* sorted(...) forgotten
resolve_unsorted(path) ==
  LET norm == IF rstrip_slash(path) = <<>> THEN <<47>> ELSE rstrip_slash(path)
      parts == NonEmpty(split(norm, <<>>))
      person_slug == parts[1]
      person_name == _slug_to_name(person_slug)
  IN IF parts = <<>>
     THEN { VFSNode("root", <<47>>, <<47>>, TRUE,
                    [k \in DOMAIN ps |-> _name_to_slug(ps[k]) \o <<47>>], <<>>) :
              ps \in list_persons }
     ELSE UNION { resolve_person(parts, person_slug, person) : person \in get_person(person_name) }

\* the nodes resolve(path) may return; None is the absent result
resolve(path) ==
  LET norm == IF rstrip_slash(path) = <<>> THEN <<47>> ELSE rstrip_slash(path)
      parts == NonEmpty(split(norm, <<>>))
      person_slug == parts[1]
      person_name == _slug_to_name(person_slug)
  IN IF parts = <<>>
     THEN { VFSNode("root", <<47>>, <<47>>, TRUE,
                    sorted([k \in DOMAIN ps |-> _name_to_slug(ps[k]) \o <<47>>]), <<>>) :
              ps \in list_persons }
     ELSE UNION { resolve_person(parts, person_slug, person) : person \in get_person(person_name) }

\* the extension beneath a last child drawn like that of a middle child: "│   "
ExtensionLast_continued == <<9474, 32, 32, 32>>

\* "└── ", "├── ", "│   ", "    " and the prefix of "Path not found: <path>"
ConnectorLast == <<9492, 9472, 9472, 32>>
ConnectorMid == <<9500, 9472, 9472, 32>>
ExtensionMid == <<9474, 32, 32, 32>>
ExtensionLast == <<32, 32, 32, 32>>
PathNotFound == <<80, 97, 116, 104, 32, 110, 111, 116, 32, 102, 111, 117, 110, 100, 58, 32>>

\* the line lists _tree_recursive may append for node, by tree_child for the
\* i-th pass of its loop (the child's line and what is below the child) and,
\* by tree_children, for the passes from index i on; every child directory
\* is resolved anew
RECURSIVE _tree_recursive(_, _, _, _, _), tree_child(_, _, _, _, _, _),
          tree_children(_, _, _, _, _, _)
_tree_recursive(path, node, prefix, depth, max_depth) ==
  IF depth > max_depth THEN { <<>> }
  ELSE LET first == IF depth = 0
                    THEN << IF node.name # <<47>> THEN node.name ELSE <<46>> >>
                    ELSE <<>>
       IN IF ~node.is_dir THEN { first }
          ELSE { first \o rest :
                   rest \in tree_children(path, node.children, 1, prefix, depth, max_depth) }

tree_child(path, children, i, prefix, depth, max_depth) ==
  LET child_name == children[i]
      is_last == (i = Len(children))
      connector == IF is_last THEN ConnectorLast ELSE ConnectorMid
      extension == IF is_last THEN ExtensionLast ELSE ExtensionMid
      child_path == rstrip_slash(path) \o <<47>> \o rstrip_slash(child_name)
      below == IF child_name[Len(child_name)] = 47
               THEN UNION { IF child_node = None THEN { <<>> }
                            ELSE _tree_recursive(child_path, child_node,
                                                 prefix \o extension, depth + 1, max_depth) :
                            child_node \in resolve(child_path) }
               ELSE { <<>> }
  IN { << prefix \o connector \o child_name >> \o sub : sub \in below }

tree_children(path, children, i, prefix, depth, max_depth) ==
  IF i > Len(children) THEN { <<>> }
  ELSE { one \o rest :
           one \in tree_child(path, children, i, prefix, depth, max_depth),
           rest \in tree_children(path, children, i + 1, prefix, depth, max_depth) }

\* max_depth: int = 4
DefaultMaxDepth == 4

\* the texts tree(path, max_depth=max_depth) may return
tree(path, max_depth) ==
  UNION { IF node = None THEN { PathNotFound \o path }
          ELSE { JoinLines(lines) : lines \in _tree_recursive(path, node, <<>>, 0, max_depth) } :
          node \in resolve(path) }

\* "/".join(xs)
RECURSIVE join_slash(_)
join_slash(xs) == IF xs = <<>> THEN <<>>
                  ELSE IF Len(xs) = 1 THEN xs[1]
                  ELSE xs[1] \o <<47>> \o join_slash(Tail(xs))

\* the loop of resolve_path over parts, resolved being the list built so far
RECURSIVE resolved_parts(_, _)
resolved_parts(parts, resolved) ==
  IF parts = <<>> THEN resolved
  ELSE IF Head(parts) = <<>> \/ Head(parts) = <<46>>
  THEN resolved_parts(Tail(parts), resolved)
  ELSE IF Head(parts) = <<46, 46>>
  THEN resolved_parts(Tail(parts),
                      IF resolved # <<>> THEN SubSeq(resolved, 1, Len(resolved) - 1)
                      ELSE resolved)
  ELSE resolved_parts(Tail(parts), Append(resolved, Head(parts)))

\* the loop of resolve_path with ".." skipped like ".": nothing is popped
RECURSIVE resolved_parts_nopop(_, _)
resolved_parts_nopop(parts, resolved) ==
  IF parts = <<>> THEN resolved
  ELSE IF Head(parts) = <<>> \/ Head(parts) = <<46>> \/ Head(parts) = <<46, 46>>
  THEN resolved_parts_nopop(Tail(parts), resolved)
  ELSE resolved_parts_nopop(Tail(parts), Append(resolved, Head(parts)))

\* resolve_path that takes every user path as relative to cwd
resolve_path_relative(cwd_, user_path) ==
  <<47>> \o join_slash(resolved_parts(split(rstrip_slash(cwd_) \o <<47>> \o user_path, <<>>), <<>>))

\* resolve_path that does not go up on ".."
resolve_path_nopop(cwd_, user_path) ==
  LET working == IF StartsWith(user_path, <<47>>) THEN user_path
                 ELSE rstrip_slash(cwd_) \o <<47>> \o user_path
  IN <<47>> \o join_slash(resolved_parts_nopop(split(working, <<>>), <<>>))

resolve_path(cwd_, user_path) ==
  LET working == IF StartsWith(user_path, <<47>>) THEN user_path
                 ELSE rstrip_slash(cwd_) \o <<47>> \o user_path
  IN <<47>> \o join_slash(resolved_parts(split(working, <<>>), <<>>))

(* ------------------------------------------------------- storage writes *)
PersonRow(current_company, type, background, state_of_play, last_delta) ==
  [current_company |-> current_company, type |-> type, background |-> background,
   state_of_play |-> state_of_play, last_delta |-> last_delta]

\* the row with the names as they are given: no sorted(...), no CHECK
connection_rows_as_given(name_a, name_b) == { <<name_a, name_b>> }

\* a, b = sorted([name_a, name_b]);  INSERT OR IGNORE skips a row that breaks
\* CHECK (person_a < person_b) or repeats the primary key
connection_rows(name_a, name_b) ==
  IF name_a = name_b THEN {}
  ELSE IF LexLess(name_a, name_b) THEN { <<name_a, name_b>> } ELSE { <<name_b, name_a>> }

\* no resolve or tree call of another caller is in progress
NoRead == [pc |-> "idle", call |-> "none", path |-> <<>>, person |-> None, node |-> None, i |-> 0,
           lines |-> <<>>, result |-> None]

Init ==
  /\ persons = << >>
  /\ interactions = {}
  /\ followups = {}
  /\ connections = {}
  /\ nextInteractionId = 1
  /\ nextFollowupId = 1
  /\ pc = "idle"
  /\ loc = NoLoc
  /\ aiCalls = 0
  /\ stages = <<>>
  /\ outcome = "none"
  /\ pre = <<>>
  /\ cwd = <<47>>
  /\ rd = NoRead
  /\ observed = {}

\* INSERT OR REPLACE: an existing row of that name is replaced, and the columns
\* the statement does not name (state_of_play, last_delta) take their default ''
create_person(name, current_company, person_type, background, conns) ==
  /\ pc = "idle"
  /\ persons' = [n \in DOMAIN persons \cup {name} |->
                   IF n = name THEN PersonRow(current_company, person_type, background, <<>>, <<>>)
                   ELSE persons[n]]
  /\ connections' = connections \cup UNION { connection_rows(name, conns[k]) : k \in DOMAIN conns }
  /\ UNCHANGED <<interactions, followups, nextInteractionId, nextFollowupId,
                 pc, loc, aiCalls, stages, outcome, pre, cwd, rd, observed>>

\* delete_person without the DELETE FROM connections
delete_person_keep_edges(name) ==
  /\ pc = "idle"
  /\ followups' = { f \in followups : f.person_name # name }
  /\ interactions' = { r \in interactions : r.person_name # name }
  /\ persons' = [n \in DOMAIN persons \ {name} |-> persons[n]]
  /\ UNCHANGED <<connections, nextInteractionId, nextFollowupId,
                 pc, loc, aiCalls, stages, outcome, pre, cwd, rd, observed>>

delete_person(name) ==
  /\ pc = "idle"
  /\ followups' = { f \in followups : f.person_name # name }
  /\ connections' = { c \in connections : c[1] # name /\ c[2] # name }
  /\ interactions' = { r \in interactions : r.person_name # name }
  /\ persons' = [n \in DOMAIN persons \ {name} |-> persons[n]]
  /\ UNCHANGED <<nextInteractionId, nextFollowupId, pc, loc, aiCalls, stages, outcome, pre, cwd, rd, observed>>

add_connection(name_a, name_b) ==
  /\ pc = "idle"
  /\ connections' = connections \cup connection_rows(name_a, name_b)
  /\ UNCHANGED <<persons, interactions, followups, nextInteractionId, nextFollowupId,
                 pc, loc, aiCalls, stages, outcome, pre, cwd, rd, observed>>

remove_connection(name_a, name_b) ==
  /\ pc = "idle"
  /\ connections' = connections \ connection_rows(name_a, name_b)
  /\ UNCHANGED <<persons, interactions, followups, nextInteractionId, nextFollowupId,
                 pc, loc, aiCalls, stages, outcome, pre, cwd, rd, observed>>

\* delete_interaction without the DELETE FROM followups
delete_interaction_keep_followups(interaction_id) ==
  /\ pc = "idle"
  /\ interactions' = { r \in interactions : r.id # interaction_id }
  /\ UNCHANGED <<persons, followups, connections, nextInteractionId, nextFollowupId,
                 pc, loc, aiCalls, stages, outcome, pre, cwd, rd, observed>>

delete_interaction(interaction_id) ==
  /\ pc = "idle"
  /\ followups' = { f \in followups : f.interaction_id # interaction_id }
  /\ interactions' = { r \in interactions : r.id # interaction_id }
  /\ UNCHANGED <<persons, connections, nextInteractionId, nextFollowupId,
                 pc, loc, aiCalls, stages, outcome, pre, cwd, rd, observed>>

\* UPDATE persons SET state_of_play = ?, last_delta = ? WHERE name = ?
update_person_state(name, state_of_play, last_delta) ==
  [n \in DOMAIN persons |->
     IF n = name THEN [persons[n] EXCEPT !.state_of_play = state_of_play, !.last_delta = last_delta]
     ELSE persons[n]]

\* UPDATE persons SET background = ? WHERE name = ?
update_person_background(name, background) ==
  [n \in DOMAIN persons |->
     IF n = name THEN [persons[n] EXCEPT !.background = background] ELSE persons[n]]

\* the row create_interaction inserts; the id is the AUTOINCREMENT counter
create_interaction(person_name, date, transcript, takeaways, tags) ==
  [id |-> nextInteractionId, person_name |-> person_name, date |-> date,
   transcript |-> transcript, takeaways |-> takeaways, tags |-> tags]

\* the rows create_followups inserts, one per item, ids counting up
create_followups(person_name, interaction_id, date_slug, items) ==
  { [id |-> nextFollowupId + k - 1, person_name |-> person_name,
     interaction_id |-> interaction_id, date_slug |-> date_slug,
     item |-> items[k], status |-> "open"] : k \in DOMAIN items }

\* complete_followup that also re-derives the date_slug from the live slug map
complete_followup_reslug(followup_id) ==
  /\ pc = "idle"
  /\ followups' =
       { IF f.id # followup_id THEN f
         ELSE LET slug_map == _build_date_slugs(CHOOSE xs \in get_interactions(f.person_name) : TRUE)
                  live == { k \in DOMAIN slug_map : slug_map[k].id = f.interaction_id }
              IN [f EXCEPT !.status = "complete",
                           !.date_slug = IF live = {} THEN f.date_slug ELSE CHOOSE k \in live : TRUE] :
         f \in followups }
  /\ UNCHANGED <<persons, interactions, connections, nextInteractionId, nextFollowupId,
                 pc, loc, aiCalls, stages, outcome, pre, cwd, rd, observed>>

\* complete_followup that flips the status: a completed follow-up is opened again
complete_followup_toggle(followup_id) ==
  /\ pc = "idle"
  /\ followups' =
       { IF f.id # followup_id THEN f
         ELSE [f EXCEPT !.status = IF f.status = "open" THEN "complete" ELSE "open"] :
         f \in followups }
  /\ UNCHANGED <<persons, interactions, connections, nextInteractionId, nextFollowupId,
                 pc, loc, aiCalls, stages, outcome, pre, cwd, rd, observed>>

\* UPDATE followups SET status = 'complete' WHERE id = ? ; an id of no row
\* returns None and changes nothing
complete_followup(followup_id) ==
  /\ pc = "idle"
  /\ followups' =
       { IF f.id = followup_id THEN [f EXCEPT !.status = "complete"] ELSE f : f \in followups }
  /\ UNCHANGED <<persons, interactions, connections, nextInteractionId, nextFollowupId,
                 pc, loc, aiCalls, stages, outcome, pre, cwd, rd, observed>>

\* followup add <person> --date <slug>: the person and the slug are looked
\* up, and the items the extraction returns for that interaction are stored
\* under the slug the interaction has now
followup_add(person_name, date_slug, items) ==
  /\ pc = "idle"
  /\ person_name \in DOMAIN persons
  /\ \E xs \in get_interactions(person_name) :
       LET slug_map == _build_date_slugs(xs)
       IN /\ xs # <<>>
          /\ date_slug \in DOMAIN slug_map
          /\ items # <<>>
          /\ followups' = followups \cup
                create_followups(person_name, slug_map[date_slug].id, date_slug, items)
          /\ nextFollowupId' = nextFollowupId + Len(items)
  /\ UNCHANGED <<persons, interactions, connections, nextInteractionId,
                 pc, loc, aiCalls, stages, outcome, pre, cwd, rd, observed>>

\* person create: the connection prompt skips the person's own name, a name of
\* no existing person and a name already added, then create_person is called
person_create(name, current_company, person_type, background, conns) ==
  /\ \A k \in DOMAIN conns :
       /\ conns[k] # name
       /\ conns[k] \in DOMAIN persons
       /\ \A j \in 1..(k - 1) : conns[j] # conns[k]
  /\ create_person(name, current_company, person_type, background, conns)

\* person connect: needs two persons, two different names and both persons
\* found, then add_connection is called
person_connect(name_a, name_b) ==
  /\ Cardinality(DOMAIN persons) >= 2
  /\ name_a # name_b
  /\ name_a \in DOMAIN persons /\ name_b \in DOMAIN persons
  /\ add_connection(name_a, name_b)

\* person disconnect: both persons found, then remove_connection is called
person_disconnect(name_a, name_b) ==
  /\ name_a \in DOMAIN persons /\ name_b \in DOMAIN persons
  /\ remove_connection(name_a, name_b)

(* ----------------------------------------------------- ingestion pipeline *)
\* the relabeling loop: the subject's letter becomes person_name, every other
\* letter "Interviewer N" in order of first appearance
RECURSIVE relabel(_, _, _, _, _)
relabel(utterances, speaker_map, interviewer_count, subject_speaker, person_name) ==
  IF utterances = <<>> THEN <<>>
  ELSE LET letter == Head(utterances).speaker
           isNew == letter \notin DOMAIN speaker_map
           count == IF isNew /\ letter # subject_speaker
                    THEN interviewer_count + 1 ELSE interviewer_count
           label == IF ~isNew THEN speaker_map[letter]
                    ELSE IF letter = subject_speaker THEN person_name
                    ELSE LblInterviewer \o Dec(count)
           map2 == [l \in DOMAIN speaker_map \cup {letter} |->
                      IF l = letter THEN label ELSE speaker_map[l]]
       IN << [Head(utterances) EXCEPT !.speaker = label] >>
            \o relabel(Tail(utterances), map2, count, subject_speaker, person_name)

\* followup_date_slug with enumerate counting from 0
followup_date_slug_from0(person_name, date, interaction_id) ==
  LET date_str == strftime(date)
      same_date == get_interactions_by_date(person_name, date_str)
  IN IF Len(same_date) <= 1 THEN date_str
     ELSE date_str \o <<95>>
            \o Dec((CHOOSE i \in DOMAIN same_date : same_date[i].id = interaction_id) - 1)

\* the date_slug the pipeline stores on the follow-ups of the interaction it
\* has just stored
followup_date_slug(person_name, date, interaction_id) ==
  LET date_str == strftime(date)
      same_date == get_interactions_by_date(person_name, date_str)
  IN IF Len(same_date) <= 1 THEN date_str
     ELSE date_str \o <<95>>
            \o Dec(CHOOSE i \in DOMAIN same_date :
                     /\ same_date[i].id = interaction_id
                     /\ \A j \in 1..(i - 1) : same_date[j].id # interaction_id)

\* an ingestion call begins: the observers restart
Begin ==
  /\ pc = "idle"
  /\ aiCalls' = 0
  /\ stages' = <<>>
  /\ pre' = store
  /\ UNCHANGED <<storeVars, cwd, rd, observed>>

\* the call raises: FileNotFoundError, ValueError or the collaborator's error
Raise(error) ==
  /\ pc' = "failed"
  /\ outcome' = error

\* one AI collaborator call is made and the stage is entered
Call(stage) ==
  /\ aiCalls' = aiCalls + 1
  /\ stages' = Append(stages, stage)

\* the frame of _run_shared_pipeline(transcript, subject_speaker, person_name, person, date)
SharedFrame(transcript, subject_speaker) ==
  [NoLoc EXCEPT !.frame = "_run_shared_pipeline", !.transcript = transcript,
                !.subject_speaker = subject_speaker, !.person_name = loc.person_name,
                !.person = loc.person, !.date = loc.date]

ingest_recording(file_exists, person_name, date) ==
  /\ Begin
  /\ IF ~file_exists
     THEN /\ Raise("FileNotFoundError")
          /\ loc' = [NoLoc EXCEPT !.frame = "ingest_recording", !.person_name = person_name]
     ELSE \E person \in get_person(person_name) :
            IF person = None
            THEN /\ Raise("ValueError: person not found")
                 /\ loc' = [NoLoc EXCEPT !.frame = "ingest_recording",
                                         !.person_name = person_name, !.file_exists = TRUE]
            ELSE /\ pc' = "transcribe"
                 /\ outcome' = "running"
                 /\ loc' = [NoLoc EXCEPT !.frame = "ingest_recording",
                                         !.person_name = person_name, !.file_exists = TRUE,
                                         !.person = person, !.date = date]

\* ingest_transcript without the empty-file check before the diarization call
ingest_transcript_unchecked(file_exists, raw_text, person_name, date) ==
  /\ Begin
  /\ IF ~file_exists
     THEN /\ Raise("FileNotFoundError")
          /\ loc' = [NoLoc EXCEPT !.frame = "ingest_transcript", !.person_name = person_name]
     ELSE \E person \in get_person(person_name) :
            IF person = None
            THEN /\ Raise("ValueError: person not found")
                 /\ loc' = [NoLoc EXCEPT !.frame = "ingest_transcript",
                                         !.person_name = person_name, !.file_exists = TRUE]
            ELSE /\ pc' = "diarize"
                 /\ outcome' = "running"
                 /\ loc' = [NoLoc EXCEPT !.frame = "ingest_transcript",
                                         !.person_name = person_name, !.file_exists = TRUE,
                                         !.raw_text = raw_text, !.person = person, !.date = date]

ingest_transcript(file_exists, raw_text, person_name, date) ==
  /\ Begin
  /\ IF ~file_exists
     THEN /\ Raise("FileNotFoundError")
          /\ loc' = [NoLoc EXCEPT !.frame = "ingest_transcript", !.person_name = person_name]
     ELSE \E person \in get_person(person_name) :
            IF person = None
            THEN /\ Raise("ValueError: person not found")
                 /\ loc' = [NoLoc EXCEPT !.frame = "ingest_transcript",
                                         !.person_name = person_name, !.file_exists = TRUE]
            ELSE IF strip(raw_text) = <<>>
            THEN /\ Raise("ValueError: transcript file is empty")
                 /\ loc' = [NoLoc EXCEPT !.frame = "ingest_transcript",
                                         !.person_name = person_name, !.file_exists = TRUE,
                                         !.raw_text = raw_text]
            ELSE /\ pc' = "diarize"
                 /\ outcome' = "running"
                 /\ loc' = [NoLoc EXCEPT !.frame = "ingest_transcript",
                                         !.person_name = person_name, !.file_exists = TRUE,
                                         !.raw_text = raw_text, !.person = person, !.date = date]

\* [1/7] transcript = transcribe_video(video_path); ok = FALSE: the collaborator raises
transcribe_video(ok, text, utterances) ==
  /\ pc = "transcribe"
  /\ Call("transcribe")
  /\ IF ok
     THEN /\ pc' = "identify"
          /\ loc' = [loc EXCEPT !.transcript = [text |-> text, utterances |-> utterances]]
          /\ UNCHANGED outcome
     ELSE /\ Raise("ExternalCollaboratorFailure")
          /\ UNCHANGED loc
  /\ UNCHANGED <<storeVars, pre, cwd, rd, observed>>

\* [2/7] subject_speaker = identify_subject_speaker(transcript, person_name, context)
identify_subject_speaker(ok, subject_speaker) ==
  /\ pc = "identify"
  /\ Call("identify_subject")
  /\ IF ok
     THEN /\ pc' = "relabel"
          /\ loc' = SharedFrame(loc.transcript, subject_speaker)
          /\ UNCHANGED outcome
     ELSE /\ Raise("ExternalCollaboratorFailure")
          /\ UNCHANGED loc
  /\ UNCHANGED <<storeVars, pre, cwd, rd, observed>>

\* [2/7] transcript, subject_speaker = diarize_transcript(raw_text, person_name, context)
diarize_transcript(ok, utterances, subject_speaker) ==
  /\ pc = "diarize"
  /\ Call("diarize")
  /\ IF ok
     THEN /\ pc' = "relabel"
          /\ loc' = SharedFrame([text |-> loc.raw_text, utterances |-> utterances],
                                subject_speaker)
          /\ UNCHANGED outcome
     ELSE /\ Raise("ExternalCollaboratorFailure")
          /\ UNCHANGED loc
  /\ UNCHANGED <<storeVars, pre, cwd, rd, observed>>

\* the relabeling loop with interviewer_count += 1 moved out of the else
\* branch: the subject's letter uses up a number too
RECURSIVE relabel_countall(_, _, _, _, _)
relabel_countall(utterances, speaker_map, interviewer_count, subject_speaker, person_name) ==
  IF utterances = <<>> THEN <<>>
  ELSE LET letter == Head(utterances).speaker
           isNew == letter \notin DOMAIN speaker_map
           count == IF isNew THEN interviewer_count + 1 ELSE interviewer_count
           label == IF ~isNew THEN speaker_map[letter]
                    ELSE IF letter = subject_speaker THEN person_name
                    ELSE LblInterviewer \o Dec(count)
           map2 == [l \in DOMAIN speaker_map \cup {letter} |->
                      IF l = letter THEN label ELSE speaker_map[l]]
       IN << [Head(utterances) EXCEPT !.speaker = label] >>
            \o relabel_countall(Tail(utterances), map2, count, subject_speaker, person_name)

\* relabel_speakers with that loop
relabel_speakers_countall ==
  /\ pc = "relabel"
  /\ stages' = Append(stages, "relabel")
  /\ loc' = [loc EXCEPT !.transcript.utterances =
                          relabel_countall(loc.transcript.utterances, << >>, 0,
                                           loc.subject_speaker, loc.person_name)]
  /\ pc' = "analyze"
  /\ UNCHANGED <<storeVars, aiCalls, outcome, pre, cwd, rd, observed>>

\* _run_shared_pipeline: relabel the speakers of the transcript in place
relabel_speakers ==
  /\ pc = "relabel"
  /\ stages' = Append(stages, "relabel")
  /\ loc' = [loc EXCEPT !.transcript.utterances =
                          relabel(loc.transcript.utterances, << >>, 0,
                                  loc.subject_speaker, loc.person_name)]
  /\ pc' = "analyze"
  /\ UNCHANGED <<storeVars, aiCalls, outcome, pre, cwd, rd, observed>>

\* takeaways, tags = analyze_interaction(transcript, person.type, ...)
analyze_interaction(ok, takeaways, tags) ==
  /\ pc = "analyze"
  /\ Call("analyze")
  /\ IF ok
     THEN /\ pc' = "summarize"
          /\ loc' = [loc EXCEPT !.takeaways = takeaways, !.tags = tags]
          /\ UNCHANGED outcome
     ELSE /\ Raise("ExternalCollaboratorFailure")
          /\ UNCHANGED loc
  /\ UNCHANGED <<storeVars, pre, cwd, rd, observed>>

\* generate_rolling_update with create_interaction moved in front of it: the
\* interaction is stored before the summarization call is made
generate_rolling_update_after_store(ok, r) ==
  /\ pc = "summarize"
  /\ Call("summarize")
  /\ interactions' = interactions \cup
                       {create_interaction(loc.person_name, loc.date, loc.transcript,
                                           loc.takeaways, loc.tags)}
  /\ IF ok
     THEN /\ pc' = "store"
          /\ loc' = [loc EXCEPT !.delta = r.delta, !.updated_state = r.updated_state]
          /\ UNCHANGED outcome
     ELSE /\ Raise("ExternalCollaboratorFailure")
          /\ UNCHANGED loc
  /\ UNCHANGED <<persons, followups, connections, nextInteractionId, nextFollowupId, pre, cwd, rd, observed>>

\* delta, updated_state = generate_rolling_update(person.state_of_play, takeaways)
generate_rolling_update(ok, r) ==
  /\ pc = "summarize"
  /\ Call("summarize")
  /\ IF ok
     THEN /\ pc' = "store"
          /\ loc' = [loc EXCEPT !.delta = r.delta, !.updated_state = r.updated_state]
          /\ UNCHANGED outcome
     ELSE /\ Raise("ExternalCollaboratorFailure")
          /\ UNCHANGED loc
  /\ UNCHANGED <<storeVars, pre, cwd, rd, observed>>

\* store_interaction followed at once by the person-state update
store_interaction_then_state ==
  /\ pc = "store"
  /\ stages' = Append(stages, "create_interaction")
  /\ LET interaction == create_interaction(loc.person_name, loc.date, loc.transcript,
                                           loc.takeaways, loc.tags)
     IN /\ interactions' = interactions \cup {interaction}
        /\ loc' = [loc EXCEPT !.interaction = interaction]
  /\ nextInteractionId' = nextInteractionId + 1
  /\ pc' = "update_state"
  /\ UNCHANGED <<persons, followups, connections, nextFollowupId, aiCalls, outcome, pre, cwd, rd, observed>>

\* interaction = create_interaction(...)
store_interaction ==
  /\ pc = "store"
  /\ stages' = Append(stages, "create_interaction")
  /\ LET interaction == create_interaction(loc.person_name, loc.date, loc.transcript,
                                           loc.takeaways, loc.tags)
     IN /\ interactions' = interactions \cup {interaction}
        /\ loc' = [loc EXCEPT !.interaction = interaction]
  /\ nextInteractionId' = nextInteractionId + 1
  /\ pc' = "followups"
  /\ UNCHANGED <<persons, followups, connections, nextFollowupId, aiCalls, outcome, pre, cwd, rd, observed>>

\* derive_followups that deletes the new interaction when the extraction fails
derive_followups_rollback(ok, followup_items) ==
  /\ pc = "followups"
  /\ aiCalls' = aiCalls + 1
  /\ IF ~ok
     THEN /\ Raise("ExternalCollaboratorFailure")
          /\ stages' = Append(stages, "extract_followups")
          /\ interactions' = interactions \ {loc.interaction}
          /\ UNCHANGED <<followups, nextFollowupId>>
     ELSE /\ IF followup_items # <<>>
             THEN /\ followups' = followups \cup
                       create_followups(loc.person_name, loc.interaction.id,
                                        followup_date_slug(loc.person_name, loc.date,
                                                           loc.interaction.id),
                                        followup_items)
                  /\ nextFollowupId' = nextFollowupId + Len(followup_items)
                  /\ stages' = stages \o <<"extract_followups", "create_followups">>
             ELSE /\ UNCHANGED <<followups, nextFollowupId>>
                  /\ stages' = Append(stages, "extract_followups")
          /\ pc' = "update_state"
          /\ UNCHANGED <<outcome, interactions>>
  /\ UNCHANGED <<persons, connections, nextInteractionId, loc, pre, cwd, rd, observed>>

\* followup_items = extract_followups(...); if followup_items: create_followups(...)
derive_followups(ok, followup_items) ==
  /\ pc = "followups"
  /\ aiCalls' = aiCalls + 1
  /\ IF ~ok
     THEN /\ Raise("ExternalCollaboratorFailure")
          /\ stages' = Append(stages, "extract_followups")
          /\ UNCHANGED <<followups, nextFollowupId>>
     ELSE /\ IF followup_items # <<>>
             THEN /\ followups' = followups \cup
                       create_followups(loc.person_name, loc.interaction.id,
                                        followup_date_slug(loc.person_name, loc.date,
                                                           loc.interaction.id),
                                        followup_items)
                  /\ nextFollowupId' = nextFollowupId + Len(followup_items)
                  /\ stages' = stages \o <<"extract_followups", "create_followups">>
             ELSE /\ UNCHANGED <<followups, nextFollowupId>>
                  /\ stages' = Append(stages, "extract_followups")
          /\ pc' = "update_state"
          /\ UNCHANGED outcome
  /\ UNCHANGED <<persons, interactions, connections, nextInteractionId, loc, pre, cwd, rd, observed>>

\* update_person_state(name=person_name, state_of_play=updated_state, last_delta=delta)
store_person_state ==
  /\ pc = "update_state"
  /\ stages' = Append(stages, "update_person_state")
  /\ persons' = update_person_state(loc.person_name, loc.updated_state, loc.delta)
  /\ pc' = "background"
  /\ UNCHANGED <<interactions, followups, connections, nextInteractionId, nextFollowupId,
                 loc, aiCalls, outcome, pre, cwd, rd, observed>>

\* the gate evaluated on the store after the insert instead of the snapshot
background_gate_requeried(person) ==
  strip(person.background) = <<>> /\ PersonInteractions(person.name) = {}

\* the gate without the interaction-list condition
background_gate_blank_only(person) ==
  strip(person.background) = <<>>

\* if not person.background.strip() and not person.interaction_ids
background_gate(person) ==
  strip(person.background) = <<>> /\ person.interaction_ids = <<>>

\* the conditional background generation, then  return interaction
auto_background(ok, background) ==
  /\ pc = "background"
  /\ IF background_gate(loc.person)
     THEN /\ aiCalls' = aiCalls + 1
          /\ IF ok
             THEN /\ persons' = update_person_background(loc.person_name, background)
                  /\ loc' = [loc EXCEPT !.background = background]
                  /\ stages' = stages \o <<"generate_background", "update_person_background">>
                  /\ pc' = "done"
                  /\ outcome' = "returned"
             ELSE /\ Raise("ExternalCollaboratorFailure")
                  /\ stages' = Append(stages, "generate_background")
                  /\ UNCHANGED <<persons, loc>>
     ELSE /\ pc' = "done"
          /\ outcome' = "returned"
          /\ UNCHANGED <<persons, loc, aiCalls, stages>>
  /\ UNCHANGED <<interactions, followups, connections, nextInteractionId, nextFollowupId, pre, cwd, rd, observed>>

\* the caller takes the result or the error; the next command can begin
Return ==
  /\ pc \in {"done", "failed"}
  /\ pc' = "idle"
  /\ loc' = NoLoc
  /\ aiCalls' = 0
  /\ stages' = <<>>
  /\ outcome' = "none"
  /\ pre' = <<>>
  /\ UNCHANGED <<storeVars, cwd, rd, observed>>

(* --------------------------------------------------------- specifications *)
\* Spec: the store commands and the ingestion pipeline with every precondition
\* failure and every collaborator failure, over the names of PipelineNames and
\* the dates of PipelineDates
Next ==
  \/ \E name \in PipelineNames, current_company \in Companies,
        person_type \in PersonTypeValues, background \in Backgrounds,
        conns \in ConnectionLists :
       create_person(name, current_company, person_type, background, conns)
  \/ \E name \in PipelineNames : delete_person(name)
  \/ \E interaction_id \in 1..MaxInteractionId : delete_interaction(interaction_id)
  \/ \E file_exists \in BOOLEAN, person_name \in PipelineNames, date \in PipelineDates :
       nextInteractionId <= MaxInteractionId /\ ingest_recording(file_exists, person_name, date)
  \/ \E file_exists \in BOOLEAN, raw_text \in RawTexts, person_name \in PipelineNames,
        date \in PipelineDates :
       nextInteractionId <= MaxInteractionId
         /\ ingest_transcript(file_exists, raw_text, person_name, date)
  \/ \E ok \in BOOLEAN, text \in TranscribedTexts, utterances \in UtteranceLists :
       transcribe_video(ok, text, utterances)
  \/ \E ok \in BOOLEAN, subject_speaker \in SubjectSpeakers :
       identify_subject_speaker(ok, subject_speaker)
  \/ \E ok \in BOOLEAN, utterances \in UtteranceLists, subject_speaker \in SubjectSpeakers :
       diarize_transcript(ok, utterances, subject_speaker)
  \/ relabel_speakers
  \/ \E ok \in BOOLEAN, takeaways \in TakeawayLists, tags \in TagLists :
       analyze_interaction(ok, takeaways, tags)
  \/ \E ok \in BOOLEAN, r \in RollingUpdates : generate_rolling_update(ok, r)
  \/ store_interaction
  \/ \E ok \in BOOLEAN, followup_items \in FollowupItemLists : derive_followups(ok, followup_items)
  \/ store_person_state
  \/ \E ok \in BOOLEAN, background \in GeneratedBackgrounds : auto_background(ok, background)
  \/ Return

Spec == Init /\ [][Next]_vars

\* SpecVfs: the store commands and transcript ingestions whose collaborators
\* all answer, over the names of Names, two of which share a slug, and the
\* dates of Dates; persons are created with the background "bg" and the
\* rolling update returns ("d", "s")
NextVfs ==
  \/ \E name \in Names, current_company \in Companies, person_type \in PersonTypeValues,
        conns \in ConnectionLists :
       create_person(name, current_company, person_type, <<98, 103>>, conns)
  \/ \E name \in Names : delete_person(name)
  \/ \E interaction_id \in 1..MaxVfsInteractionId : delete_interaction(interaction_id)
  \/ \E person_name \in Names, date \in Dates :
       nextInteractionId <= MaxVfsInteractionId
         /\ ingest_transcript(TRUE, <<104, 105>>, person_name, date)
  \/ \E utterances \in UtteranceLists, subject_speaker \in SubjectSpeakers :
       diarize_transcript(TRUE, utterances, subject_speaker)
  \/ relabel_speakers
  \/ \E takeaways \in TakeawayLists, tags \in TagLists :
       analyze_interaction(TRUE, takeaways, tags)
  \/ generate_rolling_update(TRUE, [delta |-> <<100>>, updated_state |-> <<115>>])
  \/ store_interaction
  \/ \E followup_items \in VfsFollowupItemLists : derive_followups(TRUE, followup_items)
  \/ store_person_state
  \/ \E background \in GeneratedBackgrounds : auto_background(TRUE, background)
  \/ Return

SpecVfs == Init /\ [][NextVfs]_vars

\* SpecRead: the store commands over the names of ReadNames, typed and untyped,
\* and transcript ingestions in which the follow-up extraction and the
\* background generation may fail; persons are created without a background,
\* the rolling update returns ("d", "s") and the generated background is "gen"
NextRead ==
  \/ \E name \in ReadNames, current_company \in Companies, person_type \in ReadTypeValues,
        conns \in ConnectionLists :
       create_person(name, current_company, person_type, <<>>, conns)
  \/ \E name \in ReadNames : delete_person(name)
  \/ \E interaction_id \in 1..MaxReadInteractionId : delete_interaction(interaction_id)
  \/ \E person_name \in ReadNames, date \in Dates :
       nextInteractionId <= MaxReadInteractionId
         /\ ingest_transcript(TRUE, <<104, 105>>, person_name, date)
  \/ \E utterances \in UtteranceLists, subject_speaker \in SubjectSpeakers :
       diarize_transcript(TRUE, utterances, subject_speaker)
  \/ relabel_speakers
  \/ \E takeaways \in TakeawayLists, tags \in TagLists :
       analyze_interaction(TRUE, takeaways, tags)
  \/ generate_rolling_update(TRUE, [delta |-> <<100>>, updated_state |-> <<115>>])
  \/ store_interaction
  \/ \E ok \in BOOLEAN : derive_followups(ok, <<>>)
  \/ store_person_state
  \/ \E ok \in BOOLEAN : auto_background(ok, <<103, 101, 110>>)
  \/ Return

SpecRead == Init /\ [][NextRead]_vars

\* the pieces a user path is made of: "", ".", "..", "a", "b", "c"
UserPieces == { <<>>, <<46>>, <<46, 46>>, <<97>>, <<98>>, <<99>> }

\* the user paths of up to MaxUserParts pieces joined by "/": "" and "/" and
\* relative and absolute paths with and without trailing or doubled slashes
UserPaths ==
  { join_slash(parts) :
      parts \in UNION { [1..n -> UserPieces] : n \in 1..MaxUserParts } }

\* one application of resolve_path: the current directory is replaced by
\* resolve_path(cwd, target), with no lookup of the result, so that the
\* function meets every normalized directory of up to MaxDepth segments
resolve_path_step(target) ==
  /\ pc = "idle"
  /\ Len(NonEmpty(split(resolve_path(cwd, target), <<>>))) <= MaxDepth
  /\ cwd' = resolve_path(cwd, target)
  /\ UNCHANGED <<storeVars, pc, loc, aiCalls, stages, outcome, pre, rd, observed>>

NextPath == \E target \in UserPaths : resolve_path_step(target)

SpecPath == Init /\ [][NextPath]_vars

\* the date slugs followup add is given in SpecFollowups: "2025-09-05",
\* "2025-09-05_1", "2025-09-05_2", ...
FuDateSlugs ==
  { strftime(date) : date \in PipelineDates }
    \cup { strftime(date) \o <<95>> \o Dec(k) :
             date \in PipelineDates, k \in 1..MaxFuInteractionId }

\* the follow-up specification: persons, successful transcript ingestions on
\* one date with and without follow-up items, deletions, followup add and
\* followup complete
NextFollowups ==
  \/ \E name \in PipelineNames, current_company \in Companies, person_type \in PersonTypeValues :
       create_person(name, current_company, person_type, <<98, 103>>, <<>>)
  \/ \E name \in PipelineNames : delete_person(name)
  \/ \E interaction_id \in 1..MaxFuInteractionId : delete_interaction(interaction_id)
  \/ \E followup_id \in 1..(MaxFollowupId + 2) : complete_followup(followup_id)
  \/ \E person_name \in PipelineNames, date_slug \in FuDateSlugs :
       nextFollowupId <= MaxFollowupId
         /\ followup_add(person_name, date_slug, << <<99, 97, 108, 108>> >>)
  \/ \E person_name \in PipelineNames, date \in PipelineDates :
       nextInteractionId <= MaxFuInteractionId
         /\ ingest_transcript(TRUE, <<104, 105>>, person_name, date)
  \/ \E utterances \in UtteranceLists, subject_speaker \in SubjectSpeakers :
       diarize_transcript(TRUE, utterances, subject_speaker)
  \/ relabel_speakers
  \/ \E takeaways \in TakeawayLists, tags \in TagLists :
       analyze_interaction(TRUE, takeaways, tags)
  \/ generate_rolling_update(TRUE, [delta |-> <<100>>, updated_state |-> <<115>>])
  \/ store_interaction
  \/ \E followup_items \in VfsFollowupItemLists : derive_followups(TRUE, followup_items)
  \/ store_person_state
  \/ auto_background(TRUE, <<103, 101, 110>>)
  \/ Return

SpecFollowups == Init /\ [][NextFollowups]_vars

\* the tree specification: persons of different slugs, successful transcript
\* ingestions on one date whose takeaways differ, and deletions
NextTree ==
  \/ \E name \in PipelineNames, current_company \in Companies, person_type \in PersonTypeValues :
       create_person(name, current_company, person_type, <<98, 103>>, <<>>)
  \/ \E name \in PipelineNames : delete_person(name)
  \/ \E interaction_id \in 1..MaxTreeInteractionId : delete_interaction(interaction_id)
  \/ \E person_name \in PipelineNames, date \in PipelineDates :
       nextInteractionId <= MaxTreeInteractionId
         /\ ingest_transcript(TRUE, <<104, 105>>, person_name, date)
  \/ \E utterances \in UtteranceLists, subject_speaker \in SubjectSpeakers :
       diarize_transcript(TRUE, utterances, subject_speaker)
  \/ relabel_speakers
  \/ \E takeaways \in TreeTakeawayLists, tags \in TagLists :
       analyze_interaction(TRUE, takeaways, tags)
  \/ generate_rolling_update(TRUE, [delta |-> <<100>>, updated_state |-> <<115>>])
  \/ store_interaction
  \/ derive_followups(TRUE, <<>>)
  \/ store_person_state
  \/ auto_background(TRUE, <<103, 101, 110>>)
  \/ Return

SpecTree == Init /\ [][NextTree]_vars

\* the connection lists the prompt of person create can build
ConnNameLists == UNION { [1..n -> Names] : n \in 0..MaxConns }

\* the connection specification: the commands person create, person connect,
\* person disconnect and person delete, and successful transcript
\* ingestions that store a follow-up
NextConnections ==
  \/ \E name \in Names, current_company \in Companies, person_type \in PersonTypeValues,
        conns \in ConnNameLists :
       person_create(name, current_company, person_type, <<98, 103>>, conns)
  \/ \E name_a, name_b \in Names : person_connect(name_a, name_b)
  \/ \E name_a, name_b \in Names : person_disconnect(name_a, name_b)
  \/ \E name \in Names : delete_person(name)
  \/ \E person_name \in Names, date \in PipelineDates :
       nextInteractionId <= MaxConnInteractionId
         /\ ingest_transcript(TRUE, <<104, 105>>, person_name, date)
  \/ \E utterances \in UtteranceLists, subject_speaker \in SubjectSpeakers :
       diarize_transcript(TRUE, utterances, subject_speaker)
  \/ relabel_speakers
  \/ \E takeaways \in TakeawayLists, tags \in TagLists :
       analyze_interaction(TRUE, takeaways, tags)
  \/ generate_rolling_update(TRUE, [delta |-> <<100>>, updated_state |-> <<115>>])
  \/ store_interaction
  \/ derive_followups(TRUE, << <<99, 97, 108, 108>> >>)
  \/ store_person_state
  \/ auto_background(TRUE, <<103, 101, 110>>)
  \/ Return

SpecConnections == Init /\ [][NextConnections]_vars

\* the connection lists create_person is given in SpecEdges
EdgeConnLists == UNION { [1..n -> EdgeNames] : n \in 0..MaxEdgeConns }

\* the edge specification: the storage functions that write connections,
\* called with any two names in either order, the same name twice included
NextEdges ==
  \/ \E name \in EdgeNames, current_company \in Companies, person_type \in PersonTypeValues,
        conns \in EdgeConnLists :
       create_person(name, current_company, person_type, <<98, 103>>, conns)
  \/ \E name_a, name_b \in EdgeNames : add_connection(name_a, name_b)
  \/ \E name_a, name_b \in EdgeNames : remove_connection(name_a, name_b)
  \/ \E name \in EdgeNames : delete_person(name)

SpecEdges == Init /\ [][NextEdges]_vars

\* the speaker letters the diarization uses in SpecRelabel: "A", "B", "C"
SpeakerLetters == { <<65>>, <<66>>, <<67>> }

\* the utterance lists the diarization returns in SpecRelabel: up to
\* MaxUtterances utterances of those letters with the texts "hi" and "yo"
RelabelUtteranceLists ==
  UNION { [1..n -> [speaker : SpeakerLetters, text : { <<104, 105>>, <<121, 111>> }]] :
            n \in 0..MaxUtterances }

\* the relabel specification: one person, transcript ingestions whose
\* diarization returns any of those lists with any letter, or the letter
\* "D" of no utterance, as the subject, and whose analysis call then fails
NextRelabel ==
  \/ \E current_company \in Companies, person_type \in PersonTypeValues :
       create_person(<<65, 32, 66>>, current_company, person_type, <<98, 103>>, <<>>)
  \/ \E date \in PipelineDates : ingest_transcript(TRUE, <<104, 105>>, <<65, 32, 66>>, date)
  \/ \E utterances \in RelabelUtteranceLists, subject_speaker \in SpeakerLetters \cup { <<68>> } :
       diarize_transcript(TRUE, utterances, subject_speaker)
  \/ relabel_speakers
  \/ \E takeaways \in TakeawayLists, tags \in TagLists :
       analyze_interaction(FALSE, takeaways, tags)
  \/ Return

SpecRelabel == Init /\ [][NextRelabel]_vars

(* ------------------------------------------------- a concurrent reader *)
\* a resolve or tree call of another caller (a shell, a second command) on the
\* same storage: every database function opens its own connection and is one
\* read; the writes of the first caller commit between the reads

\* the call has begun and has not returned
InRead == rd.pc \in { "get_person", "rest", "tree_resolve", "tree_loop", "return" }

\* parts = [p for p in path.split("/") if p] of the call's path
ReadParts == NonEmpty(split(rstrip_slash(rd.path), <<>>))

\* what the call would return if it ran as a whole in the current storage state
ResultsNow ==
  IF rd.call = "resolve" THEN resolve(rd.path) ELSE tree(rd.path, DefaultMaxDepth)

\* a step of the call, or a write that commits during the call: the storage
\* state the step leaves existed during the call
Observe == observed' = observed \cup ResultsNow

\* resolve(path) is called with a path below the root
resolve_call(path) ==
  /\ rd.pc = "idle"
  /\ rd' = [NoRead EXCEPT !.pc = "get_person", !.call = "resolve", !.path = path]
  /\ observed' = resolve(path)
  /\ UNCHANGED <<storeVars, pc, loc, aiCalls, stages, outcome, pre, cwd>>

\* person = get_person(person_name); if person is None: return None
resolve_get_person ==
  /\ rd.pc = "get_person"
  /\ \E person \in get_person(_slug_to_name(ReadParts[1])) :
       rd' = IF person = None THEN [rd EXCEPT !.pc = "return", !.result = None]
             ELSE [rd EXCEPT !.pc = "rest", !.person = person]
  /\ UNCHANGED <<storeVars, pc, loc, aiCalls, stages, outcome, pre, cwd>>
  /\ Observe

\* the rest of resolve, with interactions = get_interactions(person_name)
\* read now and the person read before
resolve_rest ==
  /\ rd.pc = "rest"
  /\ \E node \in resolve_person(ReadParts, ReadParts[1], rd.person) :
       rd' = [rd EXCEPT !.pc = "return", !.result = node]
  /\ UNCHANGED <<storeVars, pc, loc, aiCalls, stages, outcome, pre, cwd>>
  /\ Observe

\* tree(path) is called
tree_call(path) ==
  /\ rd.pc = "idle"
  /\ rd' = [NoRead EXCEPT !.pc = "tree_resolve", !.call = "tree", !.path = path]
  /\ observed' = tree(path, DefaultMaxDepth)
  /\ UNCHANGED <<storeVars, pc, loc, aiCalls, stages, outcome, pre, cwd>>

\* node = resolve(path); if node is None: return "Path not found: ..."; the
\* first line of _tree_recursive at depth 0
tree_resolve ==
  /\ rd.pc = "tree_resolve"
  /\ \E node \in resolve(rd.path) :
       rd' = IF node = None
             THEN [rd EXCEPT !.pc = "return", !.result = PathNotFound \o rd.path]
             ELSE [rd EXCEPT !.pc = "tree_loop", !.node = node, !.i = 1,
                             !.lines = << IF node.name # <<47>> THEN node.name ELSE <<46>> >>]
  /\ UNCHANGED <<storeVars, pc, loc, aiCalls, stages, outcome, pre, cwd>>
  /\ Observe

\* one pass of the loop of _tree_recursive at depth 0: the child's line, and
\* the child resolved now with what is below it; after the last pass
\* "\n".join(lines)
tree_loop ==
  /\ rd.pc = "tree_loop"
  /\ IF rd.i <= Len(rd.node.children)
     THEN \E one \in tree_child(rd.path, rd.node.children, rd.i, <<>>, 0, DefaultMaxDepth) :
            rd' = [rd EXCEPT !.i = rd.i + 1, !.lines = rd.lines \o one]
     ELSE rd' = [rd EXCEPT !.pc = "return", !.result = JoinLines(rd.lines)]
  /\ UNCHANGED <<storeVars, pc, loc, aiCalls, stages, outcome, pre, cwd>>
  /\ Observe

\* the call returns its result
read_return ==
  /\ rd.pc = "return"
  /\ rd' = [rd EXCEPT !.pc = "done"]
  /\ UNCHANGED <<storeVars, pc, loc, aiCalls, stages, outcome, pre, cwd>>
  /\ Observe

\* the caller is ready for its next call
read_end ==
  /\ rd.pc = "done"
  /\ rd' = NoRead
  /\ observed' = {}
  /\ UNCHANGED <<storeVars, pc, loc, aiCalls, stages, outcome, pre, cwd>>

\* delete_person committing while the call of the other caller is in progress
delete_person_during_read(name) ==
  /\ pc = "idle"
  /\ InRead
  /\ followups' = { f \in followups : f.person_name # name }
  /\ connections' = { c \in connections : c[1] # name /\ c[2] # name }
  /\ interactions' = { r \in interactions : r.person_name # name }
  /\ persons' = [n \in DOMAIN persons \ {name} |-> persons[n]]
  /\ UNCHANGED <<nextInteractionId, nextFollowupId, pc, loc, aiCalls, stages, outcome, pre,
                 cwd, rd>>
  /\ Observe

\* delete_interaction committing while the call is in progress
delete_interaction_during_read(interaction_id) ==
  /\ pc = "idle"
  /\ InRead
  /\ followups' = { f \in followups : f.interaction_id # interaction_id }
  /\ interactions' = { r \in interactions : r.id # interaction_id }
  /\ UNCHANGED <<persons, connections, nextInteractionId, nextFollowupId,
                 pc, loc, aiCalls, stages, outcome, pre, cwd, rd>>
  /\ Observe

\* the create_interaction of an ingestion committing while the call is in
\* progress
store_interaction_during_read ==
  /\ pc = "store"
  /\ InRead
  /\ stages' = Append(stages, "create_interaction")
  /\ LET interaction == create_interaction(loc.person_name, loc.date, loc.transcript,
                                           loc.takeaways, loc.tags)
     IN /\ interactions' = interactions \cup {interaction}
        /\ loc' = [loc EXCEPT !.interaction = interaction]
  /\ nextInteractionId' = nextInteractionId + 1
  /\ pc' = "followups"
  /\ UNCHANGED <<persons, followups, connections, nextFollowupId, aiCalls, outcome, pre,
                 cwd, rd>>
  /\ Observe

\* the paths the other caller resolves: /A_B/interactions and
\* /A_B/interactions/2025-09-05
ConcResolvePaths ==
  { <<47, 65, 95, 66, 47>> \o S_interactions,
    <<47, 65, 95, 66, 47>> \o S_interactions \o <<47>>
      \o strftime([y |-> 2025, m |-> 9, d |-> 5]) }

\* the paths whose tree the other caller takes: the root
ConcTreePaths == { <<47>> }

\* the concurrent specification: one caller creates persons, runs successful
\* transcript ingestions and deletes; another caller makes resolve and tree
\* calls, read by read, and the first caller's interaction insert and its
\* deletions commit between those reads
NextConcurrent ==
  \/ \E name \in PipelineNames, current_company \in Companies, person_type \in PersonTypeValues :
       rd.pc = "idle" /\ create_person(name, current_company, person_type, <<98, 103>>, <<>>)
  \/ \E person_name \in PipelineNames, date \in PipelineDates :
       /\ rd.pc = "idle"
       /\ nextInteractionId <= MaxConcInteractionId
       /\ ingest_transcript(TRUE, <<104, 105>>, person_name, date)
  \/ \E utterances \in UtteranceLists, subject_speaker \in SubjectSpeakers :
       rd.pc = "idle" /\ diarize_transcript(TRUE, utterances, subject_speaker)
  \/ rd.pc = "idle" /\ relabel_speakers
  \/ \E takeaways \in TakeawayLists, tags \in TagLists :
       rd.pc = "idle" /\ analyze_interaction(TRUE, takeaways, tags)
  \/ rd.pc = "idle"
       /\ generate_rolling_update(TRUE, [delta |-> <<100>>, updated_state |-> <<115>>])
  \/ rd.pc = "idle" /\ store_interaction
  \/ rd.pc = "idle" /\ derive_followups(TRUE, <<>>)
  \/ rd.pc = "idle" /\ store_person_state
  \/ rd.pc = "idle" /\ auto_background(TRUE, <<103, 101, 110>>)
  \/ rd.pc = "idle" /\ Return
  \/ \E path \in ConcResolvePaths : resolve_call(path)
  \/ resolve_get_person
  \/ resolve_rest
  \/ \E path \in ConcTreePaths : tree_call(path)
  \/ tree_resolve
  \/ tree_loop
  \/ read_return
  \/ read_end
  \/ \E name \in PipelineNames : delete_person_during_read(name)
  \/ \E interaction_id \in 1..MaxConcInteractionId : delete_interaction_during_read(interaction_id)
  \/ store_interaction_during_read

SpecConcurrent == Init /\ [][NextConcurrent]_vars

(* ------------------------------------------------------------ properties *)
\* the rows of one person on one calendar date, in ascending id order
SameDay(name, date) ==
  OrderById({ r \in PersonInteractions(name) : strftime(r.date) = strftime(date) })

\* the slugs of a slug map that belong to one calendar date
SlugsOfDate(slug_map, date) == { k \in DOMAIN slug_map : StartsWith(k, strftime(date)) }

\* C1: for every person and every date with N interactions, whatever the order
\* of the input list, _build_date_slugs gives N slugs for that date: the bare
\* date for the smallest id and date_2 .. date_N for the others in id order.
C1_BareDateThenSuffixes ==
  \A name \in DOMAIN persons : \A xs \in PermSeqs(PersonInteractions(name)) :
    \A date \in Dates :
      LET slug_map == _build_date_slugs(xs)
          group == SameDay(name, date)
      IN /\ Cardinality(SlugsOfDate(slug_map, date)) = Len(group)
         /\ \A k \in DOMAIN group :
              LET slug == IF k = 1 THEN strftime(date)
                          ELSE strftime(date) \o <<95>> \o Dec(k)
              IN slug \in DOMAIN slug_map /\ slug_map[slug] = group[k]

\* the follow-up rows the running ingestion call has created
NewFollowups == { f \in followups : f \notin pre[3] }

\* C2: the date_slug stored on the follow-ups an ingestion creates is the slug
\* under which _build_date_slugs, applied to the person's interactions right
\* after the new interaction is stored, maps that interaction.
C2_FollowupSlugIsVfsSlug ==
  (pc = "update_state" /\ NewFollowups # {}) =>
    \A f \in NewFollowups : \A xs \in get_interactions(loc.person_name) :
      /\ f.interaction_id = loc.interaction.id
      /\ f.date_slug \in DOMAIN _build_date_slugs(xs)
      /\ _build_date_slugs(xs)[f.date_slug] = loc.interaction

\* C2 witness: follow-ups were created for an interaction that shares its date
\* with an earlier interaction of the person
C2_Witness ==
  /\ pc = "update_state"
  /\ NewFollowups # {}
  /\ Len(SameDay(loc.person_name, loc.date)) > 1

\* C3: for every person the slug map is a bijection between slugs and the
\* person's interactions, and /<person>/interactions/ lists as many children as
\* the person has interactions.
C3_SlugMapBijection ==
  \A name \in DOMAIN persons : \A xs \in get_interactions(name) :
    LET slug_map == _build_date_slugs(xs)
    IN /\ \A k1, k2 \in DOMAIN slug_map : slug_map[k1] = slug_map[k2] => k1 = k2
       /\ { slug_map[k] : k \in DOMAIN slug_map } = PersonInteractions(name)
       /\ Cardinality(DOMAIN slug_map) = Cardinality(PersonInteractions(name))
       /\ resolve_interactions(<< _name_to_slug(name), S_interactions >>,
                               _name_to_slug(name), xs).children
            \in [1..Cardinality(PersonInteractions(name)) ->
                   { k \o <<47>> : k \in DOMAIN slug_map }]

\* C3 witness: a person with two interactions on one date
C3_Witness ==
  \E name \in DOMAIN persons : \E date \in Dates : Len(SameDay(name, date)) > 1

\* a precondition of the running ingestion call does not hold
PreconditionFails ==
  \/ ~loc.file_exists
  \/ loc.person_name \notin DOMAIN pre[1]
  \/ loc.frame = "ingest_transcript" /\ strip(loc.raw_text) = <<>>

\* C4: when the file does not exist, the person does not exist or the
\* transcript file is blank, the ingestion call fails with no AI collaborator
\* call made and no storage write.
C4_PreconditionsBeforeAnyCall ==
  (loc.frame \in {"ingest_recording", "ingest_transcript"} /\ PreconditionFails) =>
    /\ pc = "failed"
    /\ outcome \in {"FileNotFoundError", "ValueError: person not found",
                    "ValueError: transcript file is empty"}
    /\ aiCalls = 0
    /\ store = pre

\* C4 witness: an existing person, an existing but blank transcript file
C4_Witness ==
  /\ pc = "failed"
  /\ outcome = "ValueError: transcript file is empty"
  /\ loc.person_name \in DOMAIN persons
  /\ loc.raw_text # <<>>

\* the stages that may come directly before a stage
Before(stage) ==
  CASE stage = "identify_subject" -> {"transcribe"}
    [] stage = "relabel" -> {"identify_subject", "diarize"}
    [] stage = "analyze" -> {"relabel"}
    [] stage = "summarize" -> {"analyze"}
    [] stage = "create_interaction" -> {"summarize"}
    [] stage = "extract_followups" -> {"create_interaction"}
    [] stage = "create_followups" -> {"extract_followups"}
    [] stage = "update_person_state" -> {"extract_followups", "create_followups"}
    [] stage = "generate_background" -> {"update_person_state"}
    [] stage = "update_person_background" -> {"generate_background"}
    [] OTHER -> {}

\* C5: the stages of an ingestion run happen in the order acquire, relabel,
\* analyze, summarize, create_interaction, follow-ups, update_person_state,
\* background; no write precedes its stage, the interaction is stored before
\* any follow-up row and the person's state is updated after the follow-up step.
C5_StagesInOrder ==
  /\ \A i \in DOMAIN stages :
       IF i = 1 THEN stages[i] \in {"transcribe", "diarize"}
       ELSE stages[i - 1] \in Before(stages[i])
  /\ pc = "done" =>
       \A stage \in {"relabel", "analyze", "summarize", "create_interaction",
                     "extract_followups", "update_person_state"} : InList(stage, stages)
  /\ pc # "idle" =>
       /\ ~InList("create_interaction", stages) => interactions = pre[2]
       /\ ~InList("create_followups", stages) => followups = pre[3]
       /\ ~InList("update_person_state", stages) => persons = pre[1]
       /\ NewFollowups # {} => loc.interaction \in interactions

\* C5 witness: a transcript ingestion that ran every stage
C5_Witness ==
  /\ pc = "done"
  /\ stages = <<"diarize", "relabel", "analyze", "summarize", "create_interaction",
                "extract_followups", "create_followups", "update_person_state",
                "generate_background", "update_person_background">>

\* C6: a collaborator failure after create_interaction leaves the new
\* interaction stored and every later write absent: after a failed follow-up
\* extraction the persons table and the followups table are as before the
\* call; after a failed background generation the background is as before.
C6_NoRollbackOnFailure ==
  (pc = "failed" /\ outcome = "ExternalCollaboratorFailure" /\ stages # <<>>) =>
    /\ stages[Len(stages)] = "extract_followups" =>
         /\ loc.interaction \notin pre[2]
         /\ interactions = pre[2] \cup {loc.interaction}
         /\ persons = pre[1]
         /\ followups = pre[3]
         /\ \A f \in followups : f.interaction_id # loc.interaction.id
    /\ stages[Len(stages)] = "generate_background" =>
         /\ loc.interaction \notin pre[2]
         /\ interactions = pre[2] \cup {loc.interaction}
         /\ pre[3] \subseteq followups
         /\ persons = [pre[1] EXCEPT ![loc.person_name].state_of_play = loc.updated_state,
                                     ![loc.person_name].last_delta = loc.delta]

\* C6 witness: the follow-up extraction failed for a person whose state the
\* rolling update would have changed
C6_Witness ==
  /\ pc = "failed"
  /\ stages # <<>>
  /\ stages[Len(stages)] = "extract_followups"
  /\ loc.updated_state # persons[loc.person_name].state_of_play

\* the interactions the person of the running call had when the call began
PriorInteractions == { r \in pre[2] : r.person_name = loc.person_name }

\* C7: for a person with empty background and no interaction, one successful
\* ingestion whose collaborators return non-empty texts leaves a non-empty
\* background, state_of_play and last_delta and exactly one interaction.
C7_FirstIngestionFillsPerson ==
  ( /\ pc = "done"
    /\ pre[1][loc.person_name].background = <<>>
    /\ PriorInteractions = {}
    /\ loc.delta # <<>>
    /\ loc.updated_state # <<>>
    /\ InList("generate_background", stages) => loc.background # <<>> ) =>
    /\ persons[loc.person_name].background # <<>>
    /\ persons[loc.person_name].state_of_play # <<>>
    /\ persons[loc.person_name].last_delta # <<>>
    /\ Cardinality(PersonInteractions(loc.person_name)) = 1

\* C7 witness: such an ingestion has returned
C7_Witness ==
  /\ pc = "done"
  /\ pre[1][loc.person_name].background = <<>>
  /\ PriorInteractions = {}
  /\ loc.delta # <<>>
  /\ loc.updated_state # <<>>
  /\ InList("generate_background", stages)
  /\ loc.background # <<>>

\* C8: an ingestion generates a background exactly when, in the store as it was
\* when the call began, the person's background was blank and the person had
\* no interaction; an ingestion for a person who already had an interaction
\* neither calls generate_background nor changes the background.
C8_BackgroundGateOnSnapshot ==
  /\ ( pc = "done" \/ (pc = "failed" /\ stages # <<>>
                         /\ stages[Len(stages)] = "generate_background") ) =>
       ( InList("generate_background", stages) <=>
           (strip(pre[1][loc.person_name].background) = <<>> /\ PriorInteractions = {}) )
  /\ ( pc # "idle" /\ loc.person_name \in DOMAIN pre[1] /\ PriorInteractions # {} ) =>
       /\ ~InList("generate_background", stages)
       /\ persons[loc.person_name].background = pre[1][loc.person_name].background

\* C8 witness: a later ingestion for a person whose background is still blank
\* has returned
C8_Witness ==
  /\ pc = "done"
  /\ PriorInteractions # {}
  /\ strip(pre[1][loc.person_name].background) = <<>>

\* "/".join of path segments behind a leading slash
RECURSIVE PathOf(_)
PathOf(segments) == IF segments = <<>> THEN <<>>
                    ELSE <<47>> \o Head(segments) \o PathOf(Tail(segments))

\* the date slugs the slug builder can produce within the bounds
DateSlugs ==
  { strftime(date) : date \in Dates }
    \cup { strftime(date) \o <<95>> \o Dec(k) : date \in Dates, k \in 1..MaxVfsInteractionId }

\* the paths of the grammar below /<person_slug>, the person directory included
PathsUnder(person_slug) ==
  { PathOf(<<person_slug>>), PathOf(<<person_slug, S_interactions>>) }
    \cup { PathOf(<<person_slug, PERSON_FILES[k]>>) : k \in DOMAIN PERSON_FILES }
    \cup { PathOf(<<person_slug, S_interactions, date_slug>>) : date_slug \in DateSlugs }
    \cup { PathOf(<<person_slug, S_interactions, date_slug, INTERACTION_FILES[k]>>) :
             date_slug \in DateSlugs, k \in DOMAIN INTERACTION_FILES }

\* C9: resolve('/') returns a directory whose children are the slugs of the
\* existing persons, every person once, no duplicate, in sorted order.
C9_RootListsEachPersonOnce ==
  \A node \in resolve(<<47>>) :
    /\ node # None
    /\ node.is_dir
    /\ Len(node.children) = Cardinality(DOMAIN persons)
    /\ { node.children[k] : k \in DOMAIN node.children }
         = { _name_to_slug(name) \o <<47>> : name \in DOMAIN persons }
    /\ \A i, j \in DOMAIN node.children : i < j => LexLess(node.children[i], node.children[j])

\* C10: after delete_person(P), P's slug is not among the children of
\* resolve('/') and every path under /<P-slug> that resolved to a node before
\* resolves to absent, whatever other persons exist.
C10_DeletedPersonUnresolvable ==
  [][ \A P \in Names :
        (P \in DOMAIN persons /\ P \notin DOMAIN persons') =>
          /\ \A node \in resolve(<<47>>)' :
               ~InList(_name_to_slug(P) \o <<47>>, node.children)
          /\ \A path \in PathsUnder(_name_to_slug(P)) :
               (None \notin resolve(path)) => (resolve(path)' = {None}) ]_vars

\* a path segment that is no person slug, no fixed name and no date slug: "x"
S_x == <<120>>

\* the slug "A_B", which a live person may have, and the slug "C" of no person
S_A_B == <<65, 95, 66>>
S_C == <<67>>

\* the date slugs tried: the bare dates, and the suffixed slugs of 2025-09-05
\* the slug builder can produce within the bounds of SpecRead
ReadDateSlugs ==
  { strftime(date) : date \in Dates }
    \cup { strftime(date) \o <<95>> \o Dec(k) : date \in PipelineDates, k \in 1..MaxReadInteractionId }

\* the segments tried after the person slug: the grammar's paths and paths
\* with an unknown segment or one segment too many at every level
ReadTails ==
  { <<>> }
    \cup { <<f>> : f \in { PERSON_FILES[k] : k \in DOMAIN PERSON_FILES } \cup { S_interactions, S_x } }
    \cup { <<f, S_x>> : f \in { PERSON_FILES[k] : k \in DOMAIN PERSON_FILES } \cup { S_x } }
    \cup { <<S_interactions, ds>> : ds \in ReadDateSlugs \cup { S_x } }
    \cup { <<S_interactions, ds, g>> :
             ds \in ReadDateSlugs \cup { S_x },
             g \in { INTERACTION_FILES[k] : k \in DOMAIN INTERACTION_FILES } \cup { S_x } }
    \cup { <<S_interactions, ds, g, S_x>> :
             ds \in ReadDateSlugs,
             g \in { INTERACTION_FILES[k] : k \in DOMAIN INTERACTION_FILES } }

\* the paths tried, as a first segment and the segments after it: every tail
\* below "A_B", and under "C" one path of each depth
ReadPaths ==
  { <<S_A_B, tail>> : tail \in ReadTails }
    \cup { <<S_C, tail>> :
             tail \in { <<>>, <<S_info>>, <<S_interactions>>,
                        <<S_interactions, strftime([y |-> 2025, m |-> 9, d |-> 5])>>,
                        <<S_interactions, strftime([y |-> 2025, m |-> 9, d |-> 5]), S_tags>> } }

\* the date slug is among the children some of the listings shows
Listed(listings, ds) ==
  \E node \in listings : node # None /\ InList(ds \o <<47>>, node.children)

\* the path /<seg>/<tail> names nothing: no live person has the slug seg, a
\* fixed name is unknown, the date slug is not in the listings of
\* /<seg>/interactions, or the path goes on below a file
NotFound(seg, tail, listings) ==
  \/ \A name \in DOMAIN persons : _name_to_slug(name) # seg
  \/ Len(tail) >= 1 /\ tail[1] # S_interactions /\ ~InList(tail[1], PERSON_FILES)
  \/ Len(tail) >= 2 /\ tail[1] # S_interactions
  \/ Len(tail) >= 2 /\ tail[1] = S_interactions /\ ~Listed(listings, tail[2])
  \/ Len(tail) >= 3 /\ ~InList(tail[3], INTERACTION_FILES)
  \/ Len(tail) >= 4

\* C11: in every store state between two commands, a path whose first
\* segment is the slug of no live person, whose date slug is not listed,
\* whose file name is not one of the fixed names, or that goes deeper than
\* the grammar resolves to absent (None) as a value: no node and no exception.
C11_NotFoundIsAbsent ==
  pc = "idle" =>
    \A seg \in { S_A_B, S_C } :
      LET listings == resolve(PathOf(<<seg, S_interactions>>))
      IN \A p \in ReadPaths :
           (p[1] = seg /\ NotFound(seg, p[2], listings))
             => resolve(PathOf(<<seg>> \o p[2])) = {None}

\* C11 witness: a person resolves under the slug "A_B" and has a listed and
\* an unlisted date slug, so paths of every not-found class sit next to
\* paths that resolve
C11_Witness ==
  LET listings == resolve(PathOf(<<S_A_B, S_interactions>>))
  IN /\ pc = "idle"
     /\ None \notin resolve(PathOf(<<S_A_B>>))
     /\ \E ds \in ReadDateSlugs : Listed(listings, ds)
     /\ \E ds \in ReadDateSlugs : ~Listed(listings, ds)
     /\ resolve(PathOf(<<S_A_B, S_x>>)) = {None}

\* one further segment: unknown, or a name that is fixed at another level
NextSegments == { S_x, S_info, S_tags, S_interactions }

\* every resolution of the path is a file node
IsFile(nodes) == \A node \in nodes : node.node_type \in { "person_file", "interaction_file" }

\* the segments after the person slug of the paths that can name a file
LeafTails ==
  { <<PERSON_FILES[k]>> : k \in DOMAIN PERSON_FILES }
    \cup { <<S_interactions, ds, INTERACTION_FILES[k]>> :
             ds \in ReadDateSlugs, k \in DOMAIN INTERACTION_FILES }

\* C12: a path that resolves to a file node (a person file or a file of an
\* interaction directory), extended by any one further segment, resolves to
\* absent.
C12_BelowLeafIsAbsent ==
  pc = "idle" =>
    \A tail \in LeafTails :
      IsFile(resolve(PathOf(<<S_A_B>> \o tail)))
        => \A s \in NextSegments : resolve(PathOf(<<S_A_B>> \o tail \o <<s>>)) = {None}

\* C12 witness: a person file and an interaction file resolve, and a path
\* one segment below each has been resolved to absent
C12_Witness ==
  /\ pc = "idle"
  /\ IsFile(resolve(PathOf(<<S_A_B, S_state>>)))
  /\ resolve(PathOf(<<S_A_B, S_state, S_x>>)) = {None}
  /\ \E ds \in ReadDateSlugs :
       /\ IsFile(resolve(PathOf(<<S_A_B, S_interactions, ds, S_tags>>)))
       /\ resolve(PathOf(<<S_A_B, S_interactions, ds, S_tags, S_x>>)) = {None}

\* C13: for every existing person of every type value, the untyped person
\* included, /<slug>/info, /<slug>/background, /<slug>/state and
\* /<slug>/delta each resolve to a file node, neither absent nor an
\* exception, and /<slug> resolves to a directory with the children info,
\* background, state, delta, interactions/ in that order.  Stated for the
\* persons whose name the slug gives back, so that the lookup finds them.
C13_PersonFilesResolve ==
  pc = "idle" =>
    \A P \in DOMAIN persons :
      _slug_to_name(_name_to_slug(P)) = P =>
        /\ \A k \in DOMAIN PERSON_FILES :
             \A node \in resolve(PathOf(<<_name_to_slug(P), PERSON_FILES[k]>>)) :
               node.node_type = "person_file" /\ ~node.is_dir
        /\ \A node \in resolve(PathOf(<<_name_to_slug(P)>>)) :
             /\ node.node_type = "person_dir" /\ node.is_dir
             /\ node.children = << S_info, S_background, S_state, S_delta,
                                   S_interactions \o <<47>> >>

\* the person's background, state_of_play and last_delta are all set
AllSet(P) ==
  /\ persons[P].background # <<>>
  /\ persons[P].state_of_play # <<>>
  /\ persons[P].last_delta # <<>>

\* the three fields in the order of the files background, state, delta
StoredField(P, file_name) ==
  CASE file_name = S_background -> persons[P].background
    [] file_name = S_state -> persons[P].state_of_play
    [] file_name = S_delta -> persons[P].last_delta

\* C14: for a person whose background, state_of_play and last_delta are all
\* set, the file nodes /<slug>/background, /<slug>/state and /<slug>/delta
\* hold exactly the stored string of the field, also after further
\* ingestions (then the strings the last ingestion stored).
C14_ContentIsStoredField ==
  pc = "idle" =>
    \A P \in DOMAIN persons :
      AllSet(P) =>
        \A file_name \in { S_background, S_state, S_delta } :
          \A node \in resolve(PathOf(<<_name_to_slug(P), file_name>>)) :
            /\ node.node_type = "person_file"
            /\ node.content = StoredField(P, file_name)

\* the date slugs the slug builder can produce within the bounds of SpecTree
TreeDateSlugs ==
  { strftime(date) : date \in PipelineDates }
    \cup { strftime(date) \o <<95>> \o Dec(k) :
             date \in PipelineDates, k \in 1..MaxTreeInteractionId }

\* the paths resolved: the root and, below both persons, the directories and
\* the files of the grammar
ResolvedPaths ==
  { <<47>> }
    \cup UNION { { PathOf(<<person_slug>>), PathOf(<<person_slug, S_info>>),
                   PathOf(<<person_slug, S_interactions>>) }
                   \cup { PathOf(<<person_slug, S_interactions, ds>>) : ds \in TreeDateSlugs }
                   \cup { PathOf(<<person_slug, S_interactions, ds, INTERACTION_FILES[k]>>) :
                            ds \in TreeDateSlugs, k \in DOMAIN INTERACTION_FILES } :
                 person_slug \in { S_A_B, S_C } }

\* the paths whose tree is taken: the root, which walks every directory, a
\* person directory, a file and a path of no person
TreePaths == { <<47>>, PathOf(<<S_C>>), PathOf(<<S_C, S_state>>), PathOf(<<S_x>>) }

\* C15: resolve and tree read the storage only, and what they return is
\* determined by the storage state: every resolution of a path, and every
\* tree of a path, made in the same storage state returns the same result,
\* whatever order the storage hands its rows out in.
C15_ResolveIsDeterministic ==
  pc = "idle" =>
    /\ \A path \in ResolvedPaths : Cardinality(resolve(path)) = 1
    /\ \A path \in TreePaths : Cardinality(tree(path, DefaultMaxDepth)) = 1

\* C15 witness: the storage can hand out the persons in orders that differ
\* in their slugs, and two interactions of one date with different
\* takeaways in either order, and the root and its tree have been resolved
\* to one result
C15_Witness ==
  /\ pc = "idle"
  /\ \E ps, qs \in list_persons :
       [k \in DOMAIN ps |-> _name_to_slug(ps[k])] # [k \in DOMAIN qs |-> _name_to_slug(qs[k])]
  /\ \E xs, ys \in get_interactions(<<67>>) :
       /\ xs # ys
       /\ xs[1].takeaways # xs[2].takeaways
  /\ Cardinality(resolve(<<47>>)) = 1
  /\ Cardinality(tree(<<47>>, DefaultMaxDepth)) = 1

\* the segments of a path
Segments(path) == NonEmpty(split(path, <<>>))

\* the absolute normalized paths of up to MaxDepth segments "a", "b", "c"
NormalPaths ==
  { <<47>> \o join_slash(parts) :
      parts \in UNION { [1..n -> { <<97>>, <<98>>, <<99>> }] : n \in 0..MaxDepth } }

\* C16: resolve_path returns an absolute normalized path p unchanged,
\* whatever the cwd, and resolving a user path twice against the same cwd
\* gives what resolving it once gives.
C16_ResolvePathIdempotent ==
  /\ \A p \in NormalPaths : resolve_path(cwd, p) = p
  /\ \A u \in UserPaths :
       resolve_path(cwd, resolve_path(cwd, u)) = resolve_path(cwd, u)

\* C16 witness: the cwd is three segments deep, and a relative user path
\* with "..", "." and an empty piece has been resolved against it to
\* another path than the cwd and than the user path
C16_Witness ==
  /\ Len(Segments(cwd)) = 3
  /\ cwd \in NormalPaths
  /\ resolve_path(cwd, <<46, 46, 47, 47, 46, 47, 97>>)
       = <<47>> \o join_slash(SubSeq(Segments(cwd), 1, 2) \o << <<97>> >>)

\* cwd after n times  cwd = resolve_path(cwd, "..")
RECURSIVE Up(_, _)
Up(path, n) == IF n = 0 THEN path ELSE Up(resolve_path(path, <<46, 46>>), n - 1)

\* C17: replacing cwd by resolve_path(cwd, "..") drops the last segment
\* while cwd is not the root, reaches "/" after as many steps as cwd has
\* segments and not before, and stays at "/" from then on.
C17_DotDotClampsAtRoot ==
  LET n == Len(Segments(cwd))
  IN /\ \A k \in 0..n :
          Segments(Up(cwd, k)) = SubSeq(Segments(cwd), 1, n - k)
     /\ \A k \in 0..(n - 1) : Up(cwd, k) # <<47>>
     /\ \A k \in n..(n + 2) : Up(cwd, k) = <<47>>

\* C17 witness: the cwd is four segments deep, so four steps up are needed,
\* and the step up from the root has been taken
C17_Witness ==
  /\ Len(Segments(cwd)) = 4
  /\ Up(cwd, 3) # <<47>>
  /\ Up(cwd, 4) = <<47>>
  /\ Up(cwd, 5) = <<47>>

\* C18: the state_of_play and last_delta of a person who exists before and
\* after a step change only in the update_person_state step of an ingestion
\* for that person; create_person for the same name, deletions of
\* interactions and every other step leave them as they are.
C18_StateChangesOnlyByIngestion ==
  [][ \A P \in DOMAIN persons \cap DOMAIN persons' :
        (\/ persons'[P].state_of_play # persons[P].state_of_play
         \/ persons'[P].last_delta # persons[P].last_delta)
          => (pc = "update_state" /\ pc' = "background" /\ loc.person_name = P) ]_vars

\* the slugs the interaction of follow-up f has in the VFS now
LiveSlugs(f) ==
  UNION { LET slug_map == _build_date_slugs(xs)
          IN { k \in DOMAIN slug_map : slug_map[k].id = f.interaction_id } :
          xs \in get_interactions(f.person_name) }

\* C19: the date_slug stored on a follow-up is fixed at creation: no step
\* (further ingestions for the person and date, delete_interaction of a
\* sibling, followup add, complete_followup) changes the date_slug of a
\* follow-up that is there before and after it, also when the slug its
\* interaction has in the VFS changes.
C19_DateSlugIsSnapshot ==
  [][ \A f \in followups : \A g \in followups' :
        g.id = f.id => g.date_slug = f.date_slug ]_vars

\* C19 witness: a completed follow-up whose interaction is still stored and
\* has another slug in the VFS now than the one the follow-up keeps
C19_Witness ==
  \E f \in followups :
    /\ f.status = "complete"
    /\ LiveSlugs(f) # {}
    /\ f.date_slug \notin LiveSlugs(f)

\* C20: a follow-up is created open; the only change a step makes to a
\* follow-up is open -> complete, made between two commands with nothing
\* else of the store changed; a completed follow-up stays completed and is
\* not among get_open_followups; a follow-up disappears only in a step that
\* removes its person or its interaction.
C20_FollowupLifecycle ==
  /\ [][ /\ \A g \in followups' :
              (\A f \in followups : f.id # g.id) => g.status = "open"
         /\ \A f \in followups : \A g \in followups' :
              g.id = f.id =>
                /\ g = [f EXCEPT !.status = g.status]
                /\ f.status = "complete" => g.status = "complete"
                /\ g.status # f.status =>
                     /\ pc = "idle" /\ pc' = "idle"
                     /\ UNCHANGED <<persons, interactions, connections,
                                    nextInteractionId, nextFollowupId>>
         /\ \A f \in followups :
              (\A g \in followups' : g.id # f.id) =>
                \/ f.person_name \in DOMAIN persons /\ f.person_name \notin DOMAIN persons'
                \/ \E r \in interactions : r.id = f.interaction_id /\ r \notin interactions'
       ]_vars
  /\ [](\A f \in followups :
          f.status = "complete" => ~InList(f, get_open_followups(f.person_name)))

\* C20 witness: a person has a completed and an open follow-up, only the
\* open one is returned, and a follow-up handed out earlier is gone
C20_Witness ==
  \E f, g \in followups :
    /\ f.person_name = g.person_name
    /\ f.status = "complete" /\ g.status = "open"
    /\ get_open_followups(f.person_name) = << g >>
    /\ Cardinality(followups) < nextFollowupId - 1

\* the rows of the store that name the person
RowsOf(P, rows, edges) ==
  { r \in rows : r.person_name = P } \cup { c \in edges : c[1] = P \/ c[2] = P }

C22_DeleteInteractionCascade ==
  /\ [][ \A r \in interactions :
           (r \notin interactions' /\ r.person_name \in DOMAIN persons')
             => /\ interactions' = interactions \ {r}
                /\ followups' = { f \in followups : f.interaction_id # r.id }
                /\ UNCHANGED <<persons, connections>> ]_vars
  /\ [](\A f \in followups : \E r \in interactions : r.id = f.interaction_id)

\* C22 witness: of the two interactions and two follow-ups handed out, one
\* interaction and its follow-up are left and the person of both is there
C22_Witness ==
  /\ pc = "idle"
  /\ nextInteractionId = 3 /\ nextFollowupId = 3
  /\ Cardinality(DOMAIN persons) = 2
  /\ \E r \in interactions : \E f \in followups :
       /\ interactions = {r} /\ followups = {f}
       /\ f.interaction_id = r.id
       /\ persons[r.person_name].state_of_play # <<>>

\* the row an edge between the two names is stored as
EdgeOf(A, B) == IF LexLess(A, B) THEN <<A, B>> ELSE <<B, A>>

\* C23: whatever the order the two names are given in, the store holds at
\* most one edge per unordered pair, stored as (smaller name, larger name),
\* and no self-edge; get_connections(A) contains B exactly when
\* get_connections(B) contains A; and remove_connection with the names in
\* either order removes the edge of the pair.
C23_OneEdgePerPair ==
  /\ \A c \in connections : LexLess(c[1], c[2])
  /\ \A c, d \in connections : {c[1], c[2]} = {d[1], d[2]} => c = d
  /\ \A A, B \in EdgeNames :
       InList(B, get_connections(A)) <=> InList(A, get_connections(B))
  /\ \A A, B \in EdgeNames :
       EdgeOf(A, B) \in connections =>
         ENABLED (remove_connection(B, A) /\ connections' = connections \ {EdgeOf(A, B)})

\* C23 witness: two edges are stored, one of a person with two connections,
\* and an edge can be removed with its names in the other order
C23_Witness ==
  /\ Cardinality(connections) = 2
  /\ \E A \in EdgeNames : Len(get_connections(A)) = 2
  /\ \E c \in connections :
       ENABLED (remove_connection(c[2], c[1]) /\ c \notin connections')

\* "<slug>", "├── info", "├── background", "├── state", "├── delta" and
\* "└── interactions/" on six lines
PersonTreeDepthOne(person_slug) ==
  JoinLines(<< person_slug,
               ConnectorMid \o S_info, ConnectorMid \o S_background,
               ConnectorMid \o S_state, ConnectorMid \o S_delta,
               ConnectorLast \o S_interactions \o <<47>> >>)

\* C24: for an existing person with any number of interactions,
\* tree('/<slug>', max_depth=1) is exactly the root line and the five
\* children info, background, state, delta with the connector of a middle
\* entry and interactions/ with the connector of the last entry; no date
\* slug is listed beneath interactions/.
C24_TreeDepthOneListsFiveChildren ==
  pc = "idle" =>
    \A P \in DOMAIN persons :
      _slug_to_name(_name_to_slug(P)) = P =>
        tree(PathOf(<<_name_to_slug(P)>>), 1) = { PersonTreeDepthOne(_name_to_slug(P)) }

\* the index of the first utterance of the list that has the letter of
\* utterance k
FirstOf(utterances, k) ==
  CHOOSE i \in 1..k :
    /\ utterances[i].speaker = utterances[k].speaker
    /\ \A j \in 1..(i - 1) : utterances[j].speaker # utterances[k].speaker

\* the number N of "Interviewer N" for utterance k: the distinct letters
\* other than the subject's seen up to the first utterance of k's letter
InterviewerNumber(utterances, subject_speaker, k) ==
  Cardinality({ utterances[i].speaker : i \in 1..FirstOf(utterances, k) } \ {subject_speaker})

\* C25: the relabeling gives the subject's letter the person's name and
\* every other letter "Interviewer N", N counting the other letters from 1
\* in order of first appearance; utterances of one letter get one label,
\* two different letters that are not the subject's get different labels,
\* and the number, order and texts of the utterances stay.
C25_RelabelBySpeakerLetter ==
  [][ (pc = "relabel" /\ pc' = "analyze") =>
        LET old == loc.transcript.utterances
            new == loc'.transcript.utterances
            subject_speaker == loc.subject_speaker
        IN /\ Len(new) = Len(old)
           /\ \A k \in DOMAIN old :
                /\ new[k].text = old[k].text
                /\ new[k].speaker =
                     IF old[k].speaker = subject_speaker THEN loc.person_name
                     ELSE LblInterviewer \o Dec(InterviewerNumber(old, subject_speaker, k))
           /\ \A j, k \in DOMAIN old :
                /\ old[j].speaker = old[k].speaker => new[j].speaker = new[k].speaker
                /\ (/\ old[j].speaker # old[k].speaker
                    /\ old[j].speaker # subject_speaker
                    /\ old[k].speaker # subject_speaker) => new[j].speaker # new[k].speaker
    ]_vars

\* C25 witness: a relabeled transcript of three utterances that begins with
\* an interviewer, then has the person, then a second interviewer
C25_Witness ==
  /\ pc = "analyze"
  /\ Len(loc.transcript.utterances) = 3
  /\ loc.transcript.utterances[1].speaker = LblInterviewer \o <<49>>
  /\ loc.transcript.utterances[2].speaker = loc.person_name
  /\ loc.transcript.utterances[3].speaker = LblInterviewer \o <<50>>

\* C26: when an ingestion stores an interaction for person P, every
\* interaction of P that was there before keeps its date slug: a slug that
\* resolved under /<P>/interactions before resolves to the same interaction
\* afterwards.
C26_SlugsStableUnderAddition ==
  [][ \A P \in DOMAIN persons :
        (interactions # interactions' /\ interactions \subseteq interactions') =>
          \A xs \in get_interactions(P) : \A ys \in get_interactions(P)' :
            \A k \in DOMAIN _build_date_slugs(xs) :
              /\ k \in DOMAIN _build_date_slugs(ys)
              /\ _build_date_slugs(ys)[k].id = _build_date_slugs(xs)[k].id ]_vars

\* the stages that come before create_interaction
EarlyStages == {"transcribe", "identify_subject", "diarize", "relabel", "analyze", "summarize"}

\* C27: no storage write precedes the analysis and summarization calls: while
\* an ingestion has made only the acquisition, relabeling, analysis and
\* summarization steps, and when it failed in one of them, the store is
\* identical to the store before the ingestion began; a failed ingestion leaves
\* at most one interaction that was not there before.
C27_NoWriteBeforeSummarization ==
  /\ (pc # "idle" /\ \A k \in DOMAIN stages : stages[k] \in EarlyStages) => store = pre
  /\ pc = "failed" => Cardinality(interactions \ pre[2]) <= 1

\* C27 witness: the summarization call failed after a successful analysis, for
\* a person who has an earlier interaction
C27_Witness ==
  /\ pc = "failed"
  /\ outcome = "ExternalCollaboratorFailure"
  /\ stages # <<>>
  /\ stages[Len(stages)] = "summarize"
  /\ loc.takeaways # <<>>
  /\ PriorInteractions # {}

\* C27 witness of the second half: a failed ingestion that left one interaction
C27_WitnessOne ==
  /\ pc = "failed"
  /\ Cardinality(interactions \ pre[2]) = 1

\* the directory paths listed: the root, the person directory of the slug
\* "A_B", its interactions directory and the interaction directories
ListedDirs ==
  { <<47>>, PathOf(<<S_A_B>>), PathOf(<<S_A_B, S_interactions>>) }
    \cup { PathOf(<<S_A_B, S_interactions, ds>>) : ds \in ReadDateSlugs }

\* the path of the child listed as c in the directory of path p
ChildPath(p, c) ==
  (IF p = <<47>> THEN <<47>> ELSE p \o <<47>>)
    \o (IF c[Len(c)] = 47 THEN SubSeq(c, 1, Len(c) - 1) ELSE c)

\* every listed child of the directory node resolves to a node, which is a
\* directory exactly when the child is listed with a trailing slash
ChildrenResolve(p, node) ==
  \A k \in DOMAIN node.children :
    \A n \in resolve(ChildPath(p, node.children[k])) :
      /\ n \notin { None, AttributeError }
      /\ n.is_dir = (node.children[k][Len(node.children[k])] = 47)

\* C28: listing and resolution agree: in every store state between two
\* commands, every child listed in a directory node that resolve returns
\* resolves, under the directory's path, to a node that is a directory exactly
\* when the child was listed with a trailing slash, and the root child listed
\* for a person resolves to the directory of that person.
C28_ListingAndResolutionAgree ==
  pc = "idle" =>
    /\ \A p \in ListedDirs : \A node \in resolve(p) :
         (node \notin { None, AttributeError } /\ node.is_dir) => ChildrenResolve(p, node)
    /\ \A P \in DOMAIN persons :
         \A n \in resolve(PathOf(<<_name_to_slug(P)>>)) :
           /\ n # None
           /\ n.node_type = "person_dir"
           /\ n.name = _name_to_slug(P)
           /\ _slug_to_name(n.name) = P

\* C29: a resolve or tree call that runs while writes of another caller
\* commit returns what the same call would return against one single storage
\* state that existed during the call: the state the call began in, or the
\* state after one of the writes that committed before it returned.
C29_ReadSeesOneState ==
  rd.pc = "done" => rd.result \in observed

\* text.split("\n"): the pieces between the newlines of the text
SplitLines(text) ==
  LET nl == { i \in DOMAIN text : text[i] = 10 }
      n == Cardinality(nl)
      pos(j) == IF j = 0 THEN 0
                ELSE IF j = n + 1 THEN Len(text) + 1
                ELSE CHOOSE i \in nl : Cardinality({ m \in nl : m < i }) = j - 1
  IN [j \in 1..(n + 1) |-> SubSeq(text, pos(j - 1) + 1, pos(j) - 1)]

\* the strings of the rendering: "├── ", "└── ", "│   " and four blanks
Branch == <<9500, 9472, 9472, 32>>
Corner == <<9492, 9472, 9472, 32>>
Bar == <<9474, 32, 32, 32>>
Blank == <<32, 32, 32, 32>>

\* the directory paths rendered: the root and, below both persons, the person
\* directory, the interactions directory and the interaction directories
TreeDirs ==
  { <<47>> }
    \cup UNION { { PathOf(<<person_slug>>), PathOf(<<person_slug, S_interactions>>) }
                   \cup { PathOf(<<person_slug, S_interactions, ds>>) : ds \in TreeDateSlugs } :
                 person_slug \in { S_A_B, S_C } }

\* the lines of a rendering after its first line
Body(text) == Tail(SplitLines(text))

\* the indices of the lines of the directory's own children: those that
\* begin with a connector
Tops(body) ==
  { k \in DOMAIN body : StartsWith(body[k], Branch) \/ StartsWith(body[k], Corner) }

\* the number of children's lines up to line k
TopsUpTo(body, k) == Cardinality({ m \in Tops(body) : m <= k })

\* the lines beneath the j-th child, without their first four characters
Beneath(body, j) ==
  LET ks == { k \in DOMAIN body \ Tops(body) : TopsUpTo(body, k) = j }
      first == CHOOSE k \in Tops(body) : TopsUpTo(body, k) = j
  IN [n \in 1..Cardinality(ks) |-> SubSeq(body[first + n], 5, Len(body[first + n]))]

\* the list of strings is in ascending order
Ascending(xs) == \A k \in 1..(Len(xs) - 1) : LexLeq(xs[k], xs[k + 1])

\* the rendering text of the directory node at path p shows the node's
\* children in their order with the connectors, and beneath each child
\* directory, behind the continuation of a middle child or the blanks of a
\* last child, the lines of the child's own rendering
RendersChildren(p, node, text) ==
  LET body == Body(text)
      n == Len(node.children)
  IN /\ Cardinality(Tops(body)) = n
     /\ \A k \in DOMAIN body :
          LET j == TopsUpTo(body, k)
          IN IF k \in Tops(body)
             THEN body[k] = (IF j = n THEN Corner ELSE Branch) \o node.children[j]
             ELSE /\ j >= 1
                  /\ StartsWith(body[k], IF j = n THEN Blank ELSE Bar)
     /\ \A j \in 1..n :
          IF node.children[j][Len(node.children[j])] = 47
          THEN \A t \in tree(ChildPath(p, node.children[j]), DefaultMaxDepth) :
                 Beneath(body, j) = Body(t)
          ELSE Beneath(body, j) = <<>>

\* C30: the tree rendering of a directory shows the children in exactly the
\* order of the resolver's listing (the root and the interactions listing
\* ascending, the fixed files in declaration order), every child but the last
\* behind "├── " and the last behind "└── ", the lines beneath a child that is
\* not the last behind "│   " and the lines beneath the last child behind
\* four blanks.
C30_TreeOrderAndConnectors ==
  pc = "idle" =>
    \A p \in TreeDirs : \A node \in resolve(p) :
      (node # None /\ node.is_dir) =>
        /\ \A text \in tree(p, DefaultMaxDepth) : RendersChildren(p, node, text)
        /\ node.node_type \in { "root", "interactions_dir" } => Ascending(node.children)
        /\ node.node_type = "person_dir" =>
             node.children = PERSON_FILES \o << S_interactions \o <<47>> >>
        /\ node.node_type = "interaction_dir" => node.children = INTERACTION_FILES

\* C30 witness: the root's tree of two persons, the last of whom has two
\* interactions: lines beneath a middle child and beneath a last child, at
\* the first and at deeper levels
C30_Witness ==
  /\ pc = "idle"
  /\ DOMAIN persons = PipelineNames
  /\ Cardinality(PersonInteractions(<<67>>)) = 2
  /\ \A text \in tree(<<47>>, DefaultMaxDepth) :
       LET body == Body(text)
       IN /\ \E k \in DOMAIN body : StartsWith(body[k], Bar)
          /\ \E k \in DOMAIN body : StartsWith(body[k], Blank \o Blank)
          /\ \E k \in DOMAIN body : StartsWith(body[k], Blank \o Blank \o Bar)
          /\ \E k \in DOMAIN body : StartsWith(body[k], Blank \o Blank \o Blank)

====
